---- MODULE Spec2Model ----
(***************************************************************************)
(* Model of the checkout, recommendations and dashboard handlers of the    *)
(* performance testbed (routes/checkout.js, routes/recommendations.js,     *)
(* routes/dashboard.js, redis.js) over a PostgreSQL store (schema.sql) and *)
(* a Redis cache, of the feature toggles read from the environment at      *)
(* startup, of the metrics module (metrics.js) and of the application      *)
(* (index.js: middleware, /health, /metrics, /metrics/export, shutdown).   *)
(*                                                                         *)
(* Every `await` of a handler is one action: the external command is       *)
(* executed by the store or the cache and the handler then runs,           *)
(* uninterrupted (single JavaScript thread), up to its next await.         *)
(* A failed command has no effect on the store or the cache.               *)
(***************************************************************************)
EXTENDS Integers, Sequences, FiniteSets, TLC

\* ------------------------------------------------------------------ bounds
MaxRequests == 3      \* requests per behaviour of the cached system
MaxInFlight == 2      \* requests of the cached system in flight at a time
MaxCheckouts == 2     \* concurrent checkouts of the transactional system
MaxItems == 2         \* items of a checkout body (all item shapes)
MaxLongItems == 5     \* items of a checkout body (existing / missing product)
MaxFaults == 1        \* injected data-store / cache failures per behaviour
MaxReads == 3         \* recommendation reads of the timed cache
MaxTicks == 2         \* steps of the clock of the timed cache
TickSeconds == 150    \* seconds per step of the clock
MaxEnvChanges == 1    \* assignments to process.env after startup
MaxSamples == 50      \* request samples recorded by the metrics module
MaxDuration == 53     \* durations of the samples are below this, in ms
MaxHits == 3          \* recorded cache hits (metrics module)
MaxMisses == 7        \* recorded cache misses (metrics module)
MaxDbQueries == 2     \* recorded data queries (metrics module)
MaxRecorded == 2      \* records of each kind before and after an export
MaxServed == 3        \* recommendation reads of the instrumented server
MaxQueryLength == 102 \* characters of a query text passed to recordDbQuery
MaxOrders == 2        \* orders of the user of a dashboard
MaxPreferences == 2   \* preference rows of the user of a dashboard
MaxActivities == 2    \* activity rows of the user of a dashboard

\* --------------------------------------------------------------- JS values
\* Numbers of the model are non-negative; the values that are not numbers
\* are kept apart from them as negative codes.
Undefined == -1
NaN == -2
Null == -3

\* Statuses of a response; NoResponse: the handler ended without answering.
Pending == 0
NoResponse == -1

\* recordDbQuery: query.substring(0, 100)
FingerprintLength == 100

\* dashboard.js: the length of the text of the batched query, and the
\* number of activity rows both handlers ask for
DashboardQueryLength == 1057
ActivityLimit == 10

\* A text of n characters; the character at position k is written k, so
\* that a text tells which part of which text it is.
Text(n) == [k \in 1..n |-> k]

\* s.substring(a, b) but with the character at b included
substringInclusive(s, a, b) ==
  SubSeq(s, a + 1, IF b + 1 <= Len(s) THEN b + 1 ELSE Len(s))

\* s.substring(a, b), 0 <= a <= b: the characters at the 0-based positions
\* a .. b - 1 that s has
substring(s, a, b) == SubSeq(s, a + 1, IF b <= Len(s) THEN b ELSE Len(s))

\* req.params.id: a decimal text is written as the number it denotes, a
\* text that starts with no digit as NotDigits
NotDigits == -4

\* parseInt(text)
parseInt(t) == IF t = NotDigits THEN NaN ELSE t

\* ------------------------------------------------------------ seeded data
Users == {1}
MissingUserId == Cardinality(Users) + 1
Categories == {1, 2}
ProductIds == {1, 2}
MissingProductId == Cardinality(ProductIds) + 1

\* DECIMAL(10, 2) text as PostgreSQL returns it: units "." cents.
Dec(u, c) == [units |-> u, cents |-> c]
NaNDecimal == [units |-> NaN, cents |-> NaN]

products == [p \in ProductIds |-> IF p = 1 THEN Dec(10, 50) ELSE Dec(4, 25)]

\* JS numbers are counted in hundredths; parseFloat reads a DECIMAL text.
parseFloat(d) == IF d.units = NaN THEN NaN ELSE d.units * 100 + d.cents

\* node-pg serialises a parameter, PostgreSQL casts it to the column type.
ToDecimal(v) ==
  IF v = NaN THEN NaNDecimal
  ELSE Dec(v \div 100, v % 100)

ToInteger(v) == IF v = Undefined THEN Null ELSE v

\* arithmetic of JS numbers: undefined converts to NaN, NaN propagates
Mul(a, b) == IF a >= 0 /\ b >= 0 THEN a * b ELSE NaN
Add(a, b) == IF a >= 0 /\ b >= 0 THEN a + b ELSE NaN

\* ------------------------------------------------------------------ state
\* The four toggles hold the environment the process was started with,
\* which the modules read once when they are loaded; processEnv is
\* process.env as it is now.
VARIABLES
  APP_VERSION,         \* process.env.APP_VERSION, read once at startup
  ENABLE_REDIS_CACHE,  \* process.env.ENABLE_REDIS_CACHE, read once at startup
  ENABLE_BATCH_DASHBOARD, \* process.env.ENABLE_BATCH_DASHBOARD, at startup
  ENABLE_OPT_SEARCH,   \* process.env.ENABLE_OPT_SEARCH, at startup
  processEnv,          \* process.env now: name -> text
  now,                 \* the clock, in seconds
  requests,            \* metrics.requests
  dbQueries,           \* metrics.dbQueries
  stats,               \* calculateStats() of the metrics as they are now,
                       \* once it has been called on them; else NoStats
  files,               \* the files under results/, written by exportToCSV
  proc,                \* the process: running or exited, and how it exited
  db,                  \* committed rows: [orders, order_items]
  orderSeq,            \* orders.id SERIAL
  itemSeq,             \* order_items.id SERIAL
  cache,               \* Redis: key recommendations:<user id> -> entry
  isReady,             \* client.isReady of the Redis client
  cacheHits,           \* metrics.cacheHits
  cacheMisses,         \* metrics.cacheMisses
  reqs,                \* the requests, in order of arrival
  faults,              \* failures injected so far
  everDown,            \* the cache backend has been unavailable at some time
  invalidated          \* user id -> orders whose successful checkout has been
                       \* answered and after which no read has begun yet

vars == <<APP_VERSION, ENABLE_REDIS_CACHE, ENABLE_BATCH_DASHBOARD,
          ENABLE_OPT_SEARCH, processEnv, now, requests, dbQueries, stats,
          files, proc, db, orderSeq, itemSeq, cache, isReady, cacheHits, cacheMisses,
          reqs, faults, everDown, invalidated>>

envVars == <<APP_VERSION, ENABLE_REDIS_CACHE, ENABLE_BATCH_DASHBOARD,
             ENABLE_OPT_SEARCH, processEnv>>
storeVars == <<db, orderSeq, itemSeq>>
redisVars == <<cache, isReady, everDown>>
metricVars == <<cacheHits, cacheMisses, dbQueries>>
seriesVars == <<requests, stats, files, proc>>

\* ----------------------------------------------------------- configuration
\* checkout.js: APP_VERSION === 'optimized' selects the handler
CheckoutOptimized == APP_VERSION = "optimized"

\* a variable of the environment that is not set
Unset == "unset"

\* the toggles re-read from process.env on every use
CacheEnabledHotReload ==
  processEnv.ENABLE_REDIS_CACHE = "1" \/ processEnv.APP_VERSION = "optimized"

\* recommendations.js / redis.js
CacheEnabled == ENABLE_REDIS_CACHE = "1" \/ APP_VERSION = "optimized"

\* routes/dashboard.js
BatchDashboard == ENABLE_BATCH_DASHBOARD = "1" \/ APP_VERSION = "optimized"

\* routes/products.js
OptSearch == ENABLE_OPT_SEARCH = "1" \/ APP_VERSION = "optimized"

\* redis.js: the client exists only when the cache is enabled
isRedisAvailable == CacheEnabled /\ isReady

\* ---------------------------------------------------------------- requests
NoTx == [open |-> FALSE, orders |-> {}, order_items |-> {}]

\* A response body: fields names the properties of the JSON object, the
\* other components hold their values (a default where the property is
\* absent); recommendations carry asOf, the orders that were committed
\* when the data query ran (not part of the JSON).
\* metrics holds the five numbers of the body of GET /metrics.
NoMetrics ==
  [requests |-> 0, errors |-> 0, avg_ms |-> 0, p95_ms |-> 0,
   cache_hit_ratio |-> 0]

\* the rows that the baseline dashboard handler has fetched so far
NoRows == [orders |-> {}, order_items |-> {}, user_preferences |-> {}]

\* no dashboard: the value of a body that carries none
NoDashboard ==
  [user |-> [fields |-> {}, id |-> 0], orders |-> {}, preferences |-> {},
   recentActivity |-> {}]

\* no export: the filename of a body that carries none
NoName == [subdir |-> "", version |-> "", timestamp |-> 0]

NoBody == [fields |-> {}, error |-> "", orderId |-> 0, total |-> 0,
           recommendations |-> {}, generatedAt |-> 0, cached |-> FALSE,
           asOf |-> {}, metrics |-> NoMetrics, status |-> "",
           version |-> "", timestamp |-> 0, message |-> "",
           filename |-> NoName, dashboard |-> NoDashboard]

\* res.status(..).json({error: msg})
ErrorBody(msg) == [NoBody EXCEPT !.fields = {"error"}, !.error = msg]

\* A request: the parsed body (req.body / req.params), the handler's
\* position and locals, the response, and what the handler has issued:
\* the handler that serves it, its data queries (recommendations), its
\* cache commands, whether its cache read found an expired entry, and
\* whether process.env, read when the request arrived, selects the
\* optimized handler; start is Date.now() when metricsMiddleware saw the
\* request, finished whether 'finish' of its response has been emitted,
\* measured whether the request reached metricsMiddleware (app.use order:
\* cors(), express.json(), metricsMiddleware).
\* itemsType is the JS type of body.items; items is its content if an array.
\* found holds the rows fetched by the baseline dashboard handler; reads,
\* inserts, rollbacks and releases count the product reads, the INSERTs,
\* the ROLLBACKs and the client.release() calls of a checkout.
NewRequest(kind, userId, itemsType, items) ==
  [kind |-> kind, pc |-> "start", userId |-> userId,
   itemsType |-> itemsType, items |-> items,
   conn |-> "none", tx |-> NoTx, productMap |-> {}, total |-> 0,
   orderId |-> 0, k |-> 1, price |-> Dec(0, 0),
   status |-> Pending, body |-> NoBody,
   queryStart |-> 0, start |-> now, finished |-> FALSE, measured |-> TRUE,
   found |-> NoRows, inserts |-> 0, reads |-> 0, rollbacks |-> 0,
   releases |-> 0, mustSee |-> {}, path |-> "none",
   failedAt |-> "none", failKind |-> "none",
   handler |-> "none", queries |-> 0, cacheOps |-> 0, expired |-> FALSE,
   hot |-> IF kind = "recs" THEN CacheEnabledHotReload
           ELSE processEnv.APP_VERSION = "optimized"]

\* checkout.js validation of the body, the same line in both handlers:
\* !userId || !items || !Array.isArray(items) || items.length === 0
InvalidRequest(r) ==
  \/ r.userId = Undefined \/ r.userId = 0
  \/ r.itemsType = "undefined"
  \/ r.itemsType # "array"
  \/ Len(r.items) = 0

Respond(r, status, body) ==
  [r EXCEPT !.pc = "done", !.status = status, !.body = body]

\* catch of the baseline checkout and of the recommendations handlers
Fail500(r, at, kind) ==
  [Respond(r, 500, ErrorBody("Internal server error"))
     EXCEPT !.failedAt = at, !.failKind = kind]

\* throw inside the try of the optimized checkout: control goes to catch,
\* whose first statement awaits ROLLBACK
Throw(r, at, kind) ==
  [r EXCEPT !.pc = "rollback", !.failedAt = at, !.failKind = kind,
            !.conn = IF kind = "lost" THEN "lost" ELSE @]

\* An exception that leaves an async handler: Express 4 leaves the request
\* unanswered, Express 5 answers 500 through its default error handler.
UnhandledOutcomes == {NoResponse, 500}

Item(p, q) == [productId |-> p, quantity |-> q]

ItemShapes ==
  {Item(1, 1), Item(2, 2), Item(MissingProductId, 1),
   Item(Undefined, 1), Item(1, Undefined)}

LongItemShapes == {Item(1, 1), Item(MissingProductId, 1)}

RECURSIVE SeqsUpTo(_, _)
SeqsUpTo(S, n) ==
  IF n = 0 THEN {<<>>}
  ELSE LET T == SeqsUpTo(S, n - 1)
       IN T \cup {Append(s, x) : s \in {t \in T : Len(t) = n - 1}, x \in S}

\* request bodies of the sequential system
SeqBodies ==
  [userId : {1, Undefined}, itemsType : {"undefined", "string"},
   items : {<<>>}]
  \cup [userId : {1, Undefined}, itemsType : {"array"},
        items : SeqsUpTo(ItemShapes, MaxItems)
                \cup SeqsUpTo(LongItemShapes, MaxLongItems)]

\* request bodies of the transactional system: orders of two items
ConcBodies ==
  [userId : {1}, itemsType : {"array"},
   items : {<<Item(1, 1), Item(2, 2)>>,
            <<Item(1, 1), Item(MissingProductId, 1)>>}]

\* outcomes of a data-store round trip: executed, rejected by the server
\* (query error), or the connection is lost
DbOutcomes == {"ok", "error", "lost"}

\* outcomes of pool.query: the pool hides the connection, the promise
\* either resolves or rejects
PoolOutcomes == {"ok", "error"}

\* outcomes of a cache round trip
CacheOutcomes == {"ok", "lost"}

Inject(o) ==
  IF o = "ok" THEN faults' = faults
  ELSE faults < MaxFaults /\ faults' = faults + 1

Set(i, r) == reqs' = [reqs EXCEPT ![i] = r]

At(i, kind, pc) ==
  /\ i \in 1..Len(reqs)
  /\ reqs[i].kind = kind
  /\ reqs[i].pc = pc

\* ------------------------------------------------------------------- Init
NoEntry == [present |-> FALSE, value |-> NoBody, ttl |-> 0, storedAt |-> 0]

\* calculateStats when no request has been recorded
ZeroStats ==
  [requestCount |-> 0, errorCount |-> 0, avgLatency |-> 0, p95Latency |-> 0,
   throughput |-> 0, avgDbTime |-> 0, cacheHitRatio |-> 0]

NoStats == [valid |-> FALSE, value |-> ZeroStats]

\* The process: it runs until it exits: with code 0 from a signal handler
\* (process.exit(0)), or with code 1 on an exception or a rejection that
\* nothing handles (Node.js 15 and later); flushed: the signal handler's
\* export has been written.
Running == [state |-> "running", code |-> 0, cause |-> "none",
            flushed |-> FALSE]

\* the tables of schema.sql that the handlers read or write; the users are
\* seeded, the other tables are empty
SeededStore ==
  [orders |-> {}, order_items |-> {}, users |-> Users,
   user_preferences |-> {}, user_activity |-> {}]

\* the process right after its modules are loaded, in the environment it
\* was started with, the data store holding d
StartedWith(d) ==
  /\ processEnv = [APP_VERSION |-> APP_VERSION,
                   ENABLE_REDIS_CACHE |-> ENABLE_REDIS_CACHE,
                   ENABLE_BATCH_DASHBOARD |-> ENABLE_BATCH_DASHBOARD,
                   ENABLE_OPT_SEARCH |-> ENABLE_OPT_SEARCH]
  /\ now = 0
  /\ requests = <<>>
  /\ dbQueries = <<>>
  /\ stats = NoStats
  /\ files = {}
  /\ proc = Running
  /\ db = d
  /\ orderSeq = Cardinality(d.orders) + 1
  /\ itemSeq = Cardinality(d.order_items) + 1
  /\ cache = [u \in Users |-> NoEntry]
  /\ isReady \in BOOLEAN
  /\ (~CacheEnabled => ~isReady)
  /\ everDown = ~isReady
  /\ cacheHits = 0
  /\ cacheMisses = 0
  /\ reqs = <<>>
  /\ faults = 0
  /\ invalidated = [u \in Users |-> {}]

Started == StartedWith(SeededStore)

\* the environments of the test runs: the baseline, the optimized build,
\* and the baseline with the overrides set
TestRun ==
  /\ APP_VERSION \in {"baseline", "optimized"}
  /\ ENABLE_REDIS_CACHE \in {"0", "1"}
  /\ (APP_VERSION = "optimized" => ENABLE_REDIS_CACHE = "1")
  /\ ENABLE_BATCH_DASHBOARD = ENABLE_REDIS_CACHE
  /\ ENABLE_OPT_SEARCH = ENABLE_REDIS_CACHE

Init == TestRun /\ Started

\* ------------------------------------------------- POST /checkout, arrival
\* the baseline handler without its price pass: existence is discovered
\* only in the insert loop
CheckoutStartNoPricePass(b) ==
  LET r == [NewRequest("checkout", b.userId, b.itemsType, b.items)
              EXCEPT !.handler = IF CheckoutOptimized THEN "optimized"
                                 ELSE "baseline"]
  IN IF InvalidRequest(r)
     THEN Respond(r, 400, ErrorBody("Invalid request"))
     ELSE IF CheckoutOptimized
     THEN [r EXCEPT !.pc = "connect"]
     ELSE [r EXCEPT !.pc = "insertOrder", !.total = 0, !.k = 1]

\* Both handlers: destructure the body, validate it, run to the first await.
CheckoutStart(b) ==
  LET r == [NewRequest("checkout", b.userId, b.itemsType, b.items)
              EXCEPT !.handler = IF CheckoutOptimized THEN "optimized"
                                 ELSE "baseline"]
  IN IF InvalidRequest(r)
     THEN Respond(r, 400, ErrorBody("Invalid request"))
     ELSE IF CheckoutOptimized
     THEN [r EXCEPT !.pc = "connect"]
     ELSE [r EXCEPT !.pc = "price", !.total = 0, !.k = 1]

CheckoutArrive(b) ==
  /\ reqs' = Append(reqs, CheckoutStart(b))
  /\ UNCHANGED <<envVars, now, seriesVars, storeVars, redisVars, metricVars, faults,
                 invalidated>>

\* --------------------------------------------- POST /checkout (optimized)
\* productsResult.rows -> Map(id -> parseFloat(price)); an undefined
\* parameter is sent as NULL and matches no row.
ProductMap(items) ==
  {[id |-> p, price |-> parseFloat(products[p])] :
     p \in {items[j].productId : j \in 1..Len(items)} \cap ProductIds}

MapHas(m, p) == \E e \in m : e.id = p

MapGet(m, p) ==
  IF MapHas(m, p) THEN (CHOOSE e \in m : e.id = p).price ELSE Undefined

\* the validation loop left out
AllProductsAssumed(m, items) == TRUE

\* for (const item of items) if (!productMap.has(item.productId)) throw
AllProductsExist(m, items) ==
  \A j \in 1..Len(items) : MapHas(m, items[j].productId)

\* the total summed over the prices, the quantity left out
RECURSIVE OptTotalUnitQuantity(_, _, _)
OptTotalUnitQuantity(m, items, n) ==
  IF n = 0 THEN 0
  ELSE Add(OptTotalUnitQuantity(m, items, n - 1),
           MapGet(m, items[n].productId))

\* items.reduce((sum, item) => sum + productMap.get(id) * quantity, 0)
RECURSIVE OptTotal(_, _, _)
OptTotal(m, items, n) ==
  IF n = 0 THEN 0
  ELSE Add(OptTotal(m, items, n - 1),
           Mul(MapGet(m, items[n].productId), items[n].quantity))

OrderRow(id, userId, total) ==
  [id |-> id, user_id |-> userId, total_amount |-> ToDecimal(total),
   status |-> "pending"]

ItemRow(id, orderId, item, price) ==
  [id |-> id, order_id |-> orderId, product_id |-> item.productId,
   quantity |-> ToInteger(item.quantity), price |-> price]

\* schema.sql: order_items.product_id and quantity are NOT NULL and
\* product_id REFERENCES products(id)
ItemRowAccepted(item) ==
  /\ item.productId \in ProductIds
  /\ ToInteger(item.quantity) # Null

\* the rows of the batch INSERT: params = items.flatMap(item =>
\* [orderId, item.productId, item.quantity, productMap.get(item.productId)])
BatchRows(r) ==
  {ItemRow(itemSeq + j - 1, r.orderId, r.items[j],
           ToDecimal(MapGet(r.productMap, r.items[j].productId))) :
     j \in 1..Len(r.items)}

\* the finally left out
ReleaseForgotten(r) == r

\* client.release() in finally
Release(r) == [r EXCEPT !.conn = "released", !.releases = @ + 1]

\* res.json({orderId, total, status: 'pending'})
CheckoutOk(r) ==
  Respond(r, 200, [NoBody EXCEPT !.fields = {"orderId", "total", "status"},
                                 !.orderId = r.orderId, !.total = r.total])

\* const client = await pool.connect(), outside the try; it rejects when the
\* data store cannot be reached (lost) and when no connection of the pool
\* became free within connectionTimeoutMillis (timeout)
OptConnect(i, o) ==
  /\ At(i, "checkout", "connect")
  /\ o \in {"ok", "lost", "timeout"}
  /\ Inject(o)
  /\ IF o = "ok"
     THEN Set(i, [reqs[i] EXCEPT !.conn = "ok", !.pc = "begin"])
     ELSE \E s \in UnhandledOutcomes :
            Set(i, [Respond(reqs[i], s, NoBody) EXCEPT
                      !.failedAt = "connect", !.failKind = o])
  /\ UNCHANGED <<envVars, now, seriesVars, storeVars, redisVars, metricVars, invalidated>>

\* BEGIN left out: the statements of the handler are committed one by one
BeginForgotten(r) == r

\* BEGIN opens a transaction on the connection of the request: until COMMIT
\* its statements write rows only the transaction sees; without an open
\* transaction every statement is committed on return.
Begin(r) == [r EXCEPT !.tx.open = TRUE]

\* await client.query('BEGIN')
OptBegin(i, o) ==
  /\ At(i, "checkout", "begin")
  /\ o \in DbOutcomes
  /\ Inject(o)
  /\ IF o = "ok"
     THEN Set(i, [Begin(reqs[i]) EXCEPT !.pc = "select"])
     ELSE Set(i, Throw(reqs[i], "begin", o))
  /\ UNCHANGED <<envVars, now, seriesVars, storeVars, redisVars, metricVars, invalidated>>

\* SELECT id, price FROM products WHERE id IN (...), then the validation
\* loop and the total, up to the INSERT INTO orders
OptSelect(i, o) ==
  /\ At(i, "checkout", "select")
  /\ o \in DbOutcomes
  /\ Inject(o)
  /\ LET r == [reqs[i] EXCEPT !.reads = @ + 1]
         m == ProductMap(r.items)
     IN IF o # "ok" THEN Set(i, Throw(r, "select", o))
        ELSE IF ~AllProductsExist(m, r.items)
        THEN Set(i, Throw([r EXCEPT !.productMap = m], "validate", "notfound"))
        ELSE Set(i, [r EXCEPT !.productMap = m,
                              !.total = OptTotal(m, r.items, Len(r.items)),
                              !.pc = "insertOrder"])
  /\ UNCHANGED <<envVars, now, seriesVars, storeVars, redisVars, metricVars, invalidated>>

\* INSERT INTO orders ... RETURNING id, inside the transaction
OptInsertOrder(i, o) ==
  /\ At(i, "checkout", "insertOrder")
  /\ CheckoutOptimized
  /\ o \in DbOutcomes
  /\ Inject(o)
  /\ LET r == [reqs[i] EXCEPT !.inserts = @ + 1]
     IN IF o # "ok"
        THEN Set(i, Throw(r, "insertOrder", o)) /\ UNCHANGED <<db, orderSeq>>
        ELSE /\ orderSeq' = orderSeq + 1
             /\ IF r.tx.open
                THEN /\ Set(i, [r EXCEPT
                            !.orderId = orderSeq,
                            !.tx.orders =
                               @ \cup {OrderRow(orderSeq, r.userId, r.total)},
                            !.pc = "insertItems"])
                     /\ UNCHANGED db
                ELSE /\ Set(i, [r EXCEPT !.orderId = orderSeq,
                                         !.pc = "insertItems"])
                     /\ db' = [db EXCEPT !.orders =
                                 @ \cup {OrderRow(orderSeq, r.userId, r.total)}]
  /\ UNCHANGED <<envVars, now, seriesVars, itemSeq, redisVars, metricVars, invalidated>>

\* the batch insert followed by the cache invalidation, COMMIT left out
OptInsertItemsThenDel(i, o) ==
  /\ At(i, "checkout", "insertItems")
  /\ o \in DbOutcomes
  /\ Inject(o)
  /\ LET r == [reqs[i] EXCEPT !.inserts = @ + 1]
     IN IF o # "ok"
        THEN Set(i, Throw(r, "insertItems", o)) /\ UNCHANGED <<db, itemSeq>>
        ELSE /\ itemSeq' = itemSeq + Len(r.items)
             /\ Set(i, [r EXCEPT !.tx.order_items = @ \cup BatchRows(r),
                                 !.pc = "del"])
             /\ UNCHANGED db
  /\ UNCHANGED <<envVars, now, seriesVars, orderSeq, redisVars, metricVars, invalidated>>

\* INSERT INTO order_items ... VALUES (...), (...), one statement
OptInsertItems(i, o) ==
  /\ At(i, "checkout", "insertItems")
  /\ o \in DbOutcomes
  /\ Inject(o)
  /\ LET r == [reqs[i] EXCEPT !.inserts = @ + 1]
     IN IF o # "ok"
        THEN Set(i, Throw(r, "insertItems", o)) /\ UNCHANGED <<db, itemSeq>>
        ELSE IF \E j \in 1..Len(r.items) : ~ItemRowAccepted(r.items[j])
        THEN Set(i, Throw(r, "insertItems", "constraint"))
             /\ UNCHANGED <<db, itemSeq>>
        ELSE /\ itemSeq' = itemSeq + Len(r.items)
             /\ IF r.tx.open
                THEN /\ Set(i, [r EXCEPT
                            !.tx.order_items = @ \cup BatchRows(r),
                            !.pc = "commit"])
                     /\ UNCHANGED db
                ELSE /\ Set(i, [r EXCEPT !.pc = "commit"])
                     /\ db' = [db EXCEPT !.order_items = @ \cup BatchRows(r)]
  /\ UNCHANGED <<envVars, now, seriesVars, orderSeq, redisVars, metricVars, invalidated>>

\* the successful answer of a checkout for the user of r makes the order one
\* that the next read of that user has to observe
NoteAnswered(r) ==
  invalidated' = [invalidated EXCEPT ![r.userId] = @ \cup {r.orderId}]

\* COMMIT publishes the rows of the transaction at once; then
\* if (isRedisAvailable()) await redis.del(...), else the response
OptCommit(i, o) ==
  /\ At(i, "checkout", "commit")
  /\ o \in DbOutcomes
  /\ Inject(o)
  /\ LET r == reqs[i]
     IN IF o # "ok"
        THEN Set(i, Throw(r, "commit", o)) /\ UNCHANGED <<db, invalidated>>
        ELSE /\ db' = [db EXCEPT !.orders = @ \cup r.tx.orders,
                                 !.order_items = @ \cup r.tx.order_items]
             /\ IF isRedisAvailable
                THEN Set(i, [r EXCEPT !.tx = NoTx, !.pc = "del"])
                     /\ UNCHANGED invalidated
                ELSE Set(i, Release(CheckoutOk([r EXCEPT !.tx = NoTx])))
                     /\ NoteAnswered(r)
  /\ UNCHANGED <<envVars, now, seriesVars, orderSeq, itemSeq, redisVars, metricVars>>

\* await redis.del(`recommendations:${userId}`), then the response
OptDel(i, o) ==
  /\ At(i, "checkout", "del")
  /\ o \in CacheOutcomes
  /\ Inject(o)
  /\ LET r == [reqs[i] EXCEPT !.cacheOps = @ + 1]
     IN IF o = "ok"
        THEN /\ isReady
             /\ cache' = [cache EXCEPT ![r.userId] = NoEntry]
             /\ Set(i, Release(CheckoutOk(r)))
             /\ NoteAnswered(r)
             /\ UNCHANGED <<isReady, everDown>>
        ELSE /\ isReady' = FALSE
             /\ everDown' = TRUE
             /\ Set(i, Throw(r, "del", "cache"))
             /\ UNCHANGED <<cache, invalidated>>
  /\ UNCHANGED <<envVars, now, seriesVars, storeVars, metricVars>>

\* catch: await client.query('ROLLBACK'); res.status(500); finally release.
\* On a lost connection the ROLLBACK rejects and the exception leaves the
\* handler after the finally.
OptRollback(i, o) ==
  /\ At(i, "checkout", "rollback")
  /\ o \in {"ok", "lost"}
  /\ reqs[i].conn = "lost" => o = "lost"
  /\ IF reqs[i].conn = "lost" THEN faults' = faults ELSE Inject(o)
  /\ LET r == [reqs[i] EXCEPT !.rollbacks = @ + 1, !.tx = NoTx]
     IN IF o = "ok"
        THEN Set(i, Release(Respond(r, 500,
                      ErrorBody("Internal server error"))))
        ELSE \E s \in UnhandledOutcomes :
               Set(i, Release(Respond(r, s, NoBody)))
  /\ UNCHANGED <<envVars, now, seriesVars, storeVars, redisVars, metricVars, invalidated>>

\* The rejection that left the handler of request i unanswered is handled
\* by nothing (no 'unhandledRejection' listener is registered): Node.js
\* ends the process with code 1
UnhandledRejection(i) ==
  /\ i \in 1..Len(reqs)
  /\ reqs[i].pc = "done"
  /\ reqs[i].status = NoResponse
  /\ proc.state = "running"
  /\ proc' = [proc EXCEPT !.state = "exited", !.code = 1,
                          !.cause = "rejection"]
  /\ UNCHANGED <<envVars, now, requests, stats, files, storeVars, redisVars,
                 metricVars, reqs, faults, invalidated>>

\* The statements that the optimized handler awaits on its connection
\* (BEGIN .. COMMIT, ROLLBACK).
Statements ==
  {"begin", "select", "insertOrder", "insertItems", "commit", "rollback"}

\* await client.query(..) whose answer never comes (a lock that is not
\* granted, a peer that went silent): the pool limits the wait for a
\* connection (connectionTimeoutMillis), not the statements, and the
\* handler sets no timer, so the promise stays pending and the handler
\* stays at its await
OptNeverReturns(i) ==
  /\ i \in 1..Len(reqs)
  /\ reqs[i].kind = "checkout"
  /\ reqs[i].pc \in Statements
  /\ reqs[i].conn = "ok"
  /\ Inject("never")
  /\ Set(i, [reqs[i] EXCEPT !.pc = "pending",
                            !.failKind = "never"])
  /\ UNCHANGED <<envVars, now, seriesVars, storeVars, redisVars, metricVars,
                 invalidated>>

\* ---------------------------------------------- POST /checkout (baseline)
\* first loop: SELECT price FROM products WHERE id = $1 for item k;
\* no row: 400; otherwise total += parseFloat(price) * item.quantity
BasePrice(i, o) ==
  /\ At(i, "checkout", "price")
  /\ o \in PoolOutcomes
  /\ Inject(o)
  /\ LET r == [reqs[i] EXCEPT !.reads = @ + 1]
         item == r.items[r.k]
     IN IF o # "ok" THEN Set(i, Fail500(r, "price", o))
        ELSE IF item.productId \notin ProductIds
        THEN Set(i, [Respond(r, 400, ErrorBody("Product not found"))
                       EXCEPT !.failedAt = "price", !.failKind = "notfound"])
        ELSE LET t == Add(r.total, Mul(parseFloat(products[item.productId]),
                                       item.quantity))
             IN IF r.k < Len(r.items)
                THEN Set(i, [r EXCEPT !.total = t, !.k = @ + 1])
                ELSE Set(i, [r EXCEPT !.total = t, !.pc = "insertOrder"])
  /\ UNCHANGED <<envVars, now, seriesVars, storeVars, redisVars, metricVars, invalidated>>

\* pool.query INSERT INTO orders: its own statement, committed on return
BaseInsertOrder(i, o) ==
  /\ At(i, "checkout", "insertOrder")
  /\ ~CheckoutOptimized
  /\ o \in PoolOutcomes
  /\ Inject(o)
  /\ LET r == [reqs[i] EXCEPT !.inserts = @ + 1]
     IN IF o # "ok"
        THEN Set(i, Fail500(r, "insertOrder", o)) /\ UNCHANGED <<db, orderSeq>>
        ELSE /\ db' = [db EXCEPT !.orders =
                         @ \cup {OrderRow(orderSeq, r.userId, r.total)}]
             /\ orderSeq' = orderSeq + 1
             /\ Set(i, [r EXCEPT !.orderId = orderSeq, !.k = 1,
                                 !.pc = "reprice"])
  /\ UNCHANGED <<envVars, now, seriesVars, itemSeq, redisVars, metricVars, invalidated>>

\* an insert loop that takes the price from the first pass: no statement
BaseRepriceFromFirstPass(i, o) ==
  /\ At(i, "checkout", "reprice")
  /\ o = "ok"
  /\ Inject(o)
  /\ LET r == reqs[i]
         item == r.items[r.k]
     IN Set(i, [r EXCEPT !.price = products[item.productId],
                         !.pc = "insertItem"])
  /\ UNCHANGED <<envVars, now, seriesVars, storeVars, redisVars, metricVars, invalidated>>

\* second loop, first await: the price of item k is read again
BaseReprice(i, o) ==
  /\ At(i, "checkout", "reprice")
  /\ o \in PoolOutcomes
  /\ Inject(o)
  /\ LET r == [reqs[i] EXCEPT !.reads = @ + 1]
         item == r.items[r.k]
     IN IF o # "ok" THEN Set(i, Fail500(r, "reprice", o))
        ELSE IF item.productId \notin ProductIds
        THEN Set(i, Fail500(r, "reprice", "typeerror"))
        ELSE Set(i, [r EXCEPT !.price = products[item.productId],
                              !.pc = "insertItem"])
  /\ UNCHANGED <<envVars, now, seriesVars, storeVars, redisVars, metricVars, invalidated>>

\* an insert loop whose failure removes the header and the items written
\* so far
BaseInsertItemUndoes(i, o) ==
  /\ At(i, "checkout", "insertItem")
  /\ o \in PoolOutcomes
  /\ Inject(o)
  /\ LET r == [reqs[i] EXCEPT !.inserts = @ + 1]
         item == r.items[r.k]
     IN IF o # "ok" \/ ~ItemRowAccepted(item)
        THEN /\ Set(i, Fail500(r, "insertItem",
                               IF o # "ok" THEN o ELSE "constraint"))
             /\ db' = [db EXCEPT
                         !.orders = {x \in @ : x.id # r.orderId},
                         !.order_items = {x \in @ : x.order_id # r.orderId}]
             /\ UNCHANGED itemSeq
        ELSE /\ db' = [db EXCEPT !.order_items =
                         @ \cup {ItemRow(itemSeq, r.orderId, item, r.price)}]
             /\ itemSeq' = itemSeq + 1
             /\ IF r.k < Len(r.items)
                THEN Set(i, [r EXCEPT !.k = @ + 1, !.pc = "reprice"])
                ELSE Set(i, CheckoutOk(r))
  /\ UNCHANGED <<envVars, now, seriesVars, orderSeq, redisVars, metricVars, invalidated>>

\* second loop, second await: INSERT INTO order_items for item k, committed
\* on return; after the last item res.json({orderId, total, status})
BaseInsertItem(i, o) ==
  /\ At(i, "checkout", "insertItem")
  /\ o \in PoolOutcomes
  /\ Inject(o)
  /\ LET r == [reqs[i] EXCEPT !.inserts = @ + 1]
         item == r.items[r.k]
     IN IF o # "ok"
        THEN Set(i, Fail500(r, "insertItem", o)) /\ UNCHANGED <<db, itemSeq>>
        ELSE IF ~ItemRowAccepted(item)
        THEN Set(i, Fail500(r, "insertItem", "constraint"))
             /\ UNCHANGED <<db, itemSeq>>
        ELSE /\ db' = [db EXCEPT !.order_items =
                         @ \cup {ItemRow(itemSeq, r.orderId, item, r.price)}]
             /\ itemSeq' = itemSeq + 1
             /\ IF r.k < Len(r.items)
                THEN Set(i, [r EXCEPT !.k = @ + 1, !.pc = "reprice"])
                ELSE Set(i, CheckoutOk(r))
  /\ UNCHANGED <<envVars, now, seriesVars, orderSeq, redisVars, metricVars, invalidated>>

\* ------------------------------------------- GET /recommendations/:userId
\* COUNT(DISTINCT oi.order_id) per product over the committed rows
Popularity(d, p) ==
  Cardinality({oi.order_id : oi \in {x \in d.order_items : x.product_id = p}})

\* result.rows mapped to the recommendations of the response; the query and
\* the mapping are the same text in both handlers
Recommendations(d) ==
  {[id |-> p, price |-> products[p], popularity |-> Popularity(d, p),
    score |-> Popularity(d, p)] : p \in ProductIds}

\* cached handler: const response = {recommendations, generatedAt,
\* cached: false}; generatedAt is new Date().toISOString()
Response(d, t) ==
  [NoBody EXCEPT !.fields = {"recommendations", "generatedAt", "cached"},
                 !.recommendations = Recommendations(d),
                 !.generatedAt = t, !.cached = FALSE,
                 !.asOf = {row.id : row \in d.orders}]

\* baseline handler: res.json({recommendations, generatedAt})
BaselineResponse(d, t) ==
  [NoBody EXCEPT !.fields = {"recommendations", "generatedAt"},
                 !.recommendations = Recommendations(d),
                 !.generatedAt = t,
                 !.asOf = {row.id : row \in d.orders}]

\* JSON.stringify of a number: NaN is written as null
JsonNumber(v) == IF v = NaN THEN Null ELSE v

\* JSON.stringify(response): the text holds the properties of the object,
\* numbers as JSON writes them
Stringify(body) ==
  [fields |-> body.fields,
   recommendations |->
     {[rec EXCEPT !.popularity = JsonNumber(@), !.score = JsonNumber(@)] :
        rec \in body.recommendations},
   generatedAt |-> body.generatedAt, cached |-> body.cached,
   asOf |-> body.asOf]

\* a parse that flags what comes from the cache
ParseMarkCached(text) ==
  [NoBody EXCEPT !.fields = text.fields,
                 !.recommendations = text.recommendations,
                 !.generatedAt = text.generatedAt,
                 !.cached = TRUE, !.asOf = text.asOf]

\* JSON.parse(cached)
Parse(text) ==
  [NoBody EXCEPT !.fields = text.fields,
                 !.recommendations = text.recommendations,
                 !.generatedAt = text.generatedAt,
                 !.cached = text.cached, !.asOf = text.asOf]

\* a time to live given in milliseconds
TTLMillis == 300 * 1000

\* redis.setEx(cacheKey, 300, ...): seconds
TTL == 300

\* Redis: a key is live until its time to live has passed
Live(e, t) == e.present /\ t < e.storedAt + e.ttl

\* Both handlers: parse the user id and run to the first await.
RecsStart(u) ==
  LET r == [NewRequest("recs", u, "undefined", <<>>)
              EXCEPT !.mustSee = invalidated[u],
                     !.handler = IF CacheEnabled THEN "cached"
                                 ELSE "uncached"]
  IN IF CacheEnabled /\ isRedisAvailable
     THEN [r EXCEPT !.pc = "get"]
     ELSE [r EXCEPT !.pc = "query", !.queryStart = now]

\* a baseline handler that records a miss
RecsArriveCountsMiss(u) ==
  /\ reqs' = Append(reqs, RecsStart(u))
  /\ invalidated' = [invalidated EXCEPT ![u] = {}]
  /\ cacheMisses' = IF CacheEnabled THEN cacheMisses ELSE cacheMisses + 1
  /\ UNCHANGED <<envVars, now, seriesVars, storeVars, redisVars, cacheHits,
                 dbQueries, faults>>

RecsArrive(u) ==
  /\ reqs' = Append(reqs, RecsStart(u))
  /\ invalidated' = [invalidated EXCEPT ![u] = {}]
  /\ UNCHANGED <<envVars, now, seriesVars, storeVars, redisVars, metricVars,
                 faults>>

\* const cached = await redis.get(cacheKey): hit or miss; Redis answers
\* null for a key whose time to live has passed and drops it
RecsGet(i, o) ==
  /\ At(i, "recs", "get")
  /\ o \in CacheOutcomes
  /\ Inject(o)
  /\ LET r == [reqs[i] EXCEPT !.cacheOps = @ + 1]
         e == cache[r.userId]
     IN IF o # "ok"
        THEN /\ isReady' = FALSE
             /\ everDown' = TRUE
             /\ Set(i, Fail500(r, "get", "cache"))
             /\ UNCHANGED <<cache, metricVars>>
        ELSE /\ isReady
             /\ UNCHANGED <<isReady, everDown>>
             /\ IF Live(e, now)
                THEN /\ cacheHits' = cacheHits + 1
                     /\ UNCHANGED <<cacheMisses, dbQueries, cache>>
                     /\ Set(i, [Respond(r, 200, Parse(e.value))
                                  EXCEPT !.path = "hit"])
                ELSE /\ cacheMisses' = cacheMisses + 1
                     /\ cache' = [cache EXCEPT ![r.userId] = NoEntry]
                     /\ UNCHANGED <<cacheHits, dbQueries>>
                     /\ Set(i, [r EXCEPT !.path = "miss", !.pc = "query",
                                         !.expired = e.present,
                                         !.queryStart = now])
  /\ UNCHANGED <<envVars, now, seriesVars, storeVars, invalidated>>

\* the length of the text of the recommendations query (the template
\* literal of both handlers)
RecommendationsQueryLength == 569

\* recordDbQuery(query, Date.now() - queryStart)
DbQuerySample(r) ==
  [query |-> substring(Text(RecommendationsQueryLength), 0, FingerprintLength),
   length |-> RecommendationsQueryLength,
   duration |-> (now - r.queryStart) * 1000,
   timestamp |-> now * 1000]

\* a cached handler that answers a miss without storing it
RecsQuerySkipStore(i, o) ==
  /\ At(i, "recs", "query")
  /\ o \in PoolOutcomes
  /\ Inject(o)
  /\ LET r == [reqs[i] EXCEPT !.queries = @ + 1]
     IN IF o # "ok"
        THEN Set(i, Fail500(r, "query", o)) /\ UNCHANGED dbQueries
        ELSE /\ dbQueries' = Append(dbQueries, DbQuerySample(r))
             /\ IF CacheEnabled
                THEN Set(i, Respond(r, 200, Response(db, now)))
                ELSE Set(i, Respond(r, 200, BaselineResponse(db, now)))
  /\ UNCHANGED <<envVars, now, seriesVars, storeVars, redisVars, cacheHits,
                 cacheMisses, invalidated>>

\* const result = await pool.query(query, [userId]); the query is recorded,
\* the response is built and, in the cached handler with the cache
\* available, stored before it is sent
RecsQuery(i, o) ==
  /\ At(i, "recs", "query")
  /\ o \in PoolOutcomes
  /\ Inject(o)
  /\ LET r == [reqs[i] EXCEPT !.queries = @ + 1]
     IN IF o # "ok"
        THEN Set(i, Fail500(r, "query", o)) /\ UNCHANGED dbQueries
        ELSE /\ dbQueries' = Append(dbQueries, DbQuerySample(r))
             /\ IF CacheEnabled /\ isRedisAvailable
                THEN Set(i, [r EXCEPT !.body = Response(db, now),
                                      !.pc = "setEx"])
                ELSE IF CacheEnabled
                THEN Set(i, Respond(r, 200, Response(db, now)))
                ELSE Set(i, Respond(r, 200, BaselineResponse(db, now)))
  /\ UNCHANGED <<envVars, now, seriesVars, storeVars, redisVars, cacheHits,
                 cacheMisses, invalidated>>

\* await redis.setEx(cacheKey, 300, JSON.stringify(response)); res.json
RecsSetEx(i, o) ==
  /\ At(i, "recs", "setEx")
  /\ o \in CacheOutcomes
  /\ Inject(o)
  /\ LET r == [reqs[i] EXCEPT !.cacheOps = @ + 1]
     IN IF o # "ok"
        THEN /\ isReady' = FALSE
             /\ everDown' = TRUE
             /\ Set(i, Fail500(r, "setEx", "cache"))
             /\ UNCHANGED cache
        ELSE /\ isReady
             /\ cache' = [cache EXCEPT ![r.userId] =
                            [present |-> TRUE, value |-> Stringify(r.body),
                             ttl |-> TTL, storedAt |-> now]]
             /\ Set(i, Respond(r, 200, r.body))
             /\ UNCHANGED <<isReady, everDown>>
  /\ UNCHANGED <<envVars, now, seriesVars, storeVars, metricVars, invalidated>>

\* ------------------------------------------------ GET /users/:id/dashboard
\* rows of user_preferences and user_activity (schema.sql); the score is
\* the column default
PreferenceRow(id, u, c) ==
  [id |-> id, user_id |-> u, category_id |-> c,
   preference_score |-> Dec(0, 50)]

ActivityRow(id, u, t) ==
  [id |-> id, user_id |-> u, endpoint |-> "/products", duration_ms |-> id,
   created_at |-> t]

\* the sequences over S of at most n elements
Layouts(S, n) == UNION {[1..k -> S] : k \in 0..n}

RECURSIVE ItemsBefore(_, _)
ItemsBefore(layout, j) ==
  IF j = 1 THEN 0 ELSE ItemsBefore(layout, j - 1) + layout[j - 1]

\* a data store in which the seeded user has Len(layout) orders, order j
\* with layout[j] items, one preference row for each element of cats and
\* na activity rows, one per instant
DashboardStore(layout, cats, na) ==
  [orders |->
     {OrderRow(j, 1, Mul(parseFloat(products[1]), layout[j])) :
        j \in 1..Len(layout)},
   order_items |->
     UNION {{ItemRow(ItemsBefore(layout, j) + k, j, Item(1, 1), products[1]) :
               k \in 1..layout[j]} : j \in 1..Len(layout)},
   users |-> Users,
   user_preferences |-> {PreferenceRow(j, 1, cats[j]) : j \in 1..Len(cats)},
   user_activity |-> {ActivityRow(j, 1, j) : j \in 1..na}]

DashboardStores ==
  {DashboardStore(layout, cats, na) :
     layout \in Layouts(0..MaxItems, MaxOrders),
     cats \in Layouts(Categories, MaxPreferences),
     na \in 0..MaxActivities}

\* the texts passed to recordDbQuery by the two handlers
DashboardQuery == Text(DashboardQueryLength)
UsersQuery == Text(33)
OrdersQuery == Text(39)
OrderItemsQuery == Text(45)
PreferencesQuery == Text(49)
ActivityQuery == Text(46)

\* recordDbQuery(query, Date.now() - dbStart)
QuerySample(query, r) ==
  [query |-> substring(query, 0, FingerprintLength),
   length |-> Len(query),
   duration |-> (now - r.queryStart) * 1000,
   timestamp |-> now * 1000]

\* SELECT * FROM users WHERE id = $1
UserRows(d, u) == {x \in d.users : x = u}

\* SELECT * FROM orders WHERE user_id = $1
OrdersOf(d, u) == {o \in d.orders : o.user_id = u}

\* SELECT * FROM order_items WHERE order_id = $1
OrderItemsOf(d, oid) == {x \in d.order_items : x.order_id = oid}

\* SELECT * FROM user_preferences WHERE user_id = $1
PreferencesOf(d, u) == {x \in d.user_preferences : x.user_id = u}

\* SELECT * FROM user_activity WHERE user_id = $1 ORDER BY created_at DESC
\* LIMIT 10, and the rows with rn <= 10 of ROW_NUMBER() OVER (PARTITION BY
\* user_id ORDER BY created_at DESC)
RecentActivityOf(d, u) ==
  LET mine == {a \in d.user_activity : a.user_id = u}
  IN {a \in mine :
        Cardinality({b \in mine : b.created_at > a.created_at})
          < ActivityLimit}

\* The objects of the response. fields names the properties an object has;
\* copies is the number of times the object is in its array (the arrays
\* are taken as bags: the order of their elements is not modelled).
UserObject(u) ==
  [fields |-> {"id", "email", "name", "created_at"}, id |-> u]

OrderObject(fields, o, items) ==
  [fields |-> fields, id |-> o.id, total_amount |-> o.total_amount,
   status |-> o.status, items |-> items]

ItemObject(fields, x, copies) ==
  [fields |-> fields, id |-> x.id, product_id |-> x.product_id,
   quantity |-> x.quantity, price |-> x.price, copies |-> copies]

PreferenceObject(fields, id, x) ==
  [fields |-> fields, id |-> id, category_id |-> x.category_id,
   preference_score |-> x.preference_score]

ActivityObject(fields, id, x) ==
  [fields |-> fields, id |-> id, endpoint |-> x.endpoint,
   duration_ms |-> x.duration_ms, created_at |-> x.created_at]

\* res.json({user, orders, preferences, recentActivity})
DashboardBody(dash) ==
  [NoBody EXCEPT
     !.fields = {"user", "orders", "preferences", "recentActivity"},
     !.dashboard = dash]

\* a LEFT JOIN yields one row with NULLs (written 0) when nothing matches
OrNull(S) == IF S = {} THEN {0} ELSE S

\* result.rows of the batched query, each row written by the ids of the
\* order, the item, the preference and the activity it joins: users LEFT
\* JOIN orders LEFT JOIN order_items (of the order) LEFT JOIN
\* user_preferences (of the user) LEFT JOIN the recent activity (of the
\* user) WHERE u.id = $1
Joined(d, u) ==
  IF UserRows(d, u) = {} THEN {}
  ELSE UNION {{[order_id |-> o, item_id |-> x, pref_id |-> p,
                activity_id |-> a] :
                 x \in OrNull({y.id : y \in OrderItemsOf(d, o)}),
                 p \in OrNull({y.id : y \in PreferencesOf(d, u)}),
                 a \in OrNull({y.id : y \in RecentActivityOf(d, u)})} :
              o \in OrNull({y.id : y \in OrdersOf(d, u)})}

\* the loop over result.rows: an order is added once (ordersMap), an item
\* is pushed for every row that has it, a preference is added once per
\* category_id (the first row found), an activity once per endpoint and
\* created_at (seenActivities; the first row found)
BatchedDashboard(d, u) ==
  LET rows == Joined(d, u)
      order(id) == CHOOSE o \in d.orders : o.id = id
      item(id) == CHOOSE x \in d.order_items : x.id = id
      prefs == {x \in d.user_preferences :
                  \E r \in rows : r.pref_id = x.id}
      acts == {x \in d.user_activity : \E r \in rows : r.activity_id = x.id}
  IN [user |-> UserObject(u),
      orders |->
        {OrderObject({"id", "total_amount", "status", "created_at", "items"},
                     order(o),
                     {ItemObject({"id", "product_id", "quantity", "price"},
                                 item(x),
                                 Cardinality({r \in rows : r.order_id = o
                                                /\ r.item_id = x})) :
                        x \in {r.item_id : r \in {q \in rows : q.order_id = o}}
                              \ {0}}) :
           o \in {r.order_id : r \in rows} \ {0}},
      preferences |->
        {PreferenceObject({"category_id", "preference_score"}, 0,
                          CHOOSE x \in prefs : x.category_id = c) :
           c \in {x.category_id : x \in prefs}},
      recentActivity |->
        {ActivityObject({"endpoint", "duration_ms", "created_at"}, 0,
                        CHOOSE x \in acts : <<x.endpoint, x.created_at>> = key) :
           key \in {<<x.endpoint, x.created_at>> : x \in acts}}]

\* the response of the baseline handler from the rows it has fetched:
\* orders.map(order => ({...order, items: orderItems.filter(item =>
\* item.order_id === order.id)})), prefsResult.rows, activityResult.rows
BaselineDashboardOf(u, found, activity) ==
  [user |-> UserObject(u),
   orders |->
     {OrderObject({"id", "user_id", "total_amount", "status", "created_at",
                   "items"}, o,
                  {ItemObject({"id", "order_id", "product_id", "quantity",
                               "price"}, x, 1) :
                     x \in {y \in found.order_items : y.order_id = o.id}}) :
        o \in found.orders},
   preferences |->
     {PreferenceObject({"id", "user_id", "category_id", "preference_score",
                        "updated_at"}, x.id, x) :
        x \in found.user_preferences},
   recentActivity |->
     {ActivityObject({"id", "user_id", "endpoint", "duration_ms",
                      "created_at"}, x.id, x) : x \in activity}]

\* the baseline handler on a data store that does not change while it runs
BaselineDashboard(d, u) ==
  BaselineDashboardOf(u,
    [orders |-> OrdersOf(d, u),
     order_items |-> UNION {OrderItemsOf(d, o.id) : o \in OrdersOf(d, u)},
     user_preferences |-> PreferencesOf(d, u)],
    RecentActivityOf(d, u))

DashboardParams == Users \cup {MissingUserId, NotDigits}

\* both handlers: const userId = parseInt(req.params.id), up to the first
\* await
DashboardArrive(p) ==
  LET r == [NewRequest("dashboard", parseInt(p), "undefined", <<>>)
              EXCEPT !.handler = IF BatchDashboard THEN "batched"
                                 ELSE "baseline",
                     !.pc = IF BatchDashboard THEN "joined" ELSE "user",
                     !.queryStart = now]
  IN /\ reqs' = Append(reqs, r)
     /\ UNCHANGED <<envVars, now, seriesVars, storeVars, redisVars,
                    metricVars, faults, invalidated>>

\* a statement whose parameter is NaN is rejected by the data store
\* (invalid input syntax for type integer)
Rejected(r, o) == o # "ok" \/ r.userId = NaN

RejectKind(r, o) == IF o # "ok" THEN o ELSE "syntax"

\* batched handler: await pool.query(query, [userId]), recordDbQuery, 404
\* when there is no row, else the response built from the rows
DashBatched(i, o) ==
  /\ At(i, "dashboard", "joined")
  /\ o \in PoolOutcomes
  /\ Inject(o)
  /\ LET r == [reqs[i] EXCEPT !.queries = @ + 1]
     IN IF Rejected(r, o)
        THEN Set(i, Fail500(r, "joined", RejectKind(r, o)))
             /\ UNCHANGED dbQueries
        ELSE /\ dbQueries' = Append(dbQueries, QuerySample(DashboardQuery, r))
             /\ IF Joined(db, r.userId) = {}
                THEN Set(i, Respond(r, 404, ErrorBody("User not found")))
                ELSE Set(i, Respond(r, 200,
                              DashboardBody(BatchedDashboard(db, r.userId))))
  /\ UNCHANGED <<envVars, now, seriesVars, storeVars, redisVars, cacheHits,
                 cacheMisses, invalidated>>

\* baseline handler, query 1: the user; 404 when there is no row
DashUser(i, o) ==
  /\ At(i, "dashboard", "user")
  /\ o \in PoolOutcomes
  /\ Inject(o)
  /\ LET r == [reqs[i] EXCEPT !.queries = @ + 1]
     IN IF Rejected(r, o)
        THEN Set(i, Fail500(r, "user", RejectKind(r, o)))
             /\ UNCHANGED dbQueries
        ELSE /\ dbQueries' = Append(dbQueries, QuerySample(UsersQuery, r))
             /\ IF UserRows(db, r.userId) = {}
                THEN Set(i, Respond(r, 404, ErrorBody("User not found")))
                ELSE Set(i, [r EXCEPT !.pc = "orders", !.queryStart = now])
  /\ UNCHANGED <<envVars, now, seriesVars, storeVars, redisVars, cacheHits,
                 cacheMisses, invalidated>>

\* baseline handler, query 2: the orders; then the loop over them, or the
\* preferences when there is none
DashOrders(i, o) ==
  /\ At(i, "dashboard", "orders")
  /\ o \in PoolOutcomes
  /\ Inject(o)
  /\ LET r == [reqs[i] EXCEPT !.queries = @ + 1]
         orders == OrdersOf(db, r.userId)
     IN IF o # "ok"
        THEN Set(i, Fail500(r, "orders", o)) /\ UNCHANGED dbQueries
        ELSE /\ dbQueries' = Append(dbQueries, QuerySample(OrdersQuery, r))
             /\ Set(i, [r EXCEPT !.found.orders = orders, !.k = 1,
                                 !.queryStart = now,
                                 !.pc = IF orders = {} THEN "prefs"
                                        ELSE "items"])
  /\ UNCHANGED <<envVars, now, seriesVars, storeVars, redisVars, cacheHits,
                 cacheMisses, invalidated>>

\* the k-th of the orders, in the order of their ids
KthOrder(orders, k) ==
  CHOOSE o \in orders : Cardinality({x \in orders : x.id < o.id}) = k - 1

\* baseline handler, queries 3..N: the items of the k-th order, pushed to
\* orderItems
DashItems(i, o) ==
  /\ At(i, "dashboard", "items")
  /\ o \in PoolOutcomes
  /\ Inject(o)
  /\ LET r == [reqs[i] EXCEPT !.queries = @ + 1]
         order == KthOrder(r.found.orders, r.k)
     IN IF o # "ok"
        THEN Set(i, Fail500(r, "items", o)) /\ UNCHANGED dbQueries
        ELSE /\ dbQueries' = Append(dbQueries, QuerySample(OrderItemsQuery, r))
             /\ Set(i, [r EXCEPT
                          !.found.order_items =
                             @ \cup OrderItemsOf(db, order.id),
                          !.queryStart = now,
                          !.k = @ + 1,
                          !.pc = IF r.k < Cardinality(r.found.orders)
                                 THEN "items" ELSE "prefs"])
  /\ UNCHANGED <<envVars, now, seriesVars, storeVars, redisVars, cacheHits,
                 cacheMisses, invalidated>>

\* baseline handler, query 4: the preferences
DashPrefs(i, o) ==
  /\ At(i, "dashboard", "prefs")
  /\ o \in PoolOutcomes
  /\ Inject(o)
  /\ LET r == [reqs[i] EXCEPT !.queries = @ + 1]
     IN IF o # "ok"
        THEN Set(i, Fail500(r, "prefs", o)) /\ UNCHANGED dbQueries
        ELSE /\ dbQueries' = Append(dbQueries, QuerySample(PreferencesQuery, r))
             /\ Set(i, [r EXCEPT
                          !.found.user_preferences =
                             PreferencesOf(db, r.userId),
                          !.queryStart = now,
                          !.pc = "activity"])
  /\ UNCHANGED <<envVars, now, seriesVars, storeVars, redisVars, cacheHits,
                 cacheMisses, invalidated>>

\* baseline handler, query 5: the recent activity, then res.json
DashActivity(i, o) ==
  /\ At(i, "dashboard", "activity")
  /\ o \in PoolOutcomes
  /\ Inject(o)
  /\ LET r == [reqs[i] EXCEPT !.queries = @ + 1]
     IN IF o # "ok"
        THEN Set(i, Fail500(r, "activity", o)) /\ UNCHANGED dbQueries
        ELSE /\ dbQueries' = Append(dbQueries, QuerySample(ActivityQuery, r))
             /\ Set(i, Respond(r, 200,
                         DashboardBody(
                           BaselineDashboardOf(r.userId, r.found,
                             RecentActivityOf(db, r.userId)))))
  /\ UNCHANGED <<envVars, now, seriesVars, storeVars, redisVars, cacheHits,
                 cacheMisses, invalidated>>

\* ------------------------------------------------------- the cache backend
\* the socket of the Redis client drops
RedisDown ==
  /\ CacheEnabled
  /\ isReady
  /\ faults < MaxFaults
  /\ faults' = faults + 1
  /\ isReady' = FALSE
  /\ everDown' = TRUE
  /\ UNCHANGED <<envVars, now, seriesVars, storeVars, cache, metricVars, reqs, invalidated>>

\* the client reconnects
RedisUp ==
  /\ CacheEnabled
  /\ ~isReady
  /\ isReady' = TRUE
  /\ UNCHANGED <<envVars, now, seriesVars, storeVars, cache, everDown, metricVars, reqs,
                 faults, invalidated>>

\* --------------------------------------------------------- the environment
EnvNames == {"APP_VERSION", "ENABLE_REDIS_CACHE", "ENABLE_BATCH_DASHBOARD",
             "ENABLE_OPT_SEARCH"}

EnvValues(name) ==
  IF name = "APP_VERSION" THEN {Unset, "baseline", "optimized"}
  ELSE {Unset, "0", "1"}

\* the environment the process was started with
StartupEnv ==
  [APP_VERSION |-> APP_VERSION,
   ENABLE_REDIS_CACHE |-> ENABLE_REDIS_CACHE,
   ENABLE_BATCH_DASHBOARD |-> ENABLE_BATCH_DASHBOARD,
   ENABLE_OPT_SEARCH |-> ENABLE_OPT_SEARCH]

EnvChanges == Cardinality({n \in EnvNames : processEnv[n] # StartupEnv[n]})

\* process.env[name] = value, or delete process.env[name], in the running
\* process; the constants of the modules were computed when they were
\* loaded
SetEnv(name, value) ==
  /\ processEnv[name] # value
  /\ processEnv' = [processEnv EXCEPT ![name] = value]
  /\ UNCHANGED <<APP_VERSION, ENABLE_REDIS_CACHE, ENABLE_BATCH_DASHBOARD,
                 ENABLE_OPT_SEARCH, now, seriesVars, storeVars, redisVars,
                 metricVars, reqs, faults, invalidated>>
  /\ EnvChanges' <= MaxEnvChanges

\* ---------------------------------------------------------------- the clock
Tick ==
  /\ now < MaxTicks * TickSeconds
  /\ now' = now + TickSeconds
  /\ UNCHANGED <<envVars, seriesVars, storeVars, redisVars, metricVars, reqs,
                 faults, invalidated>>

\* ------------------------------------------------------------- metrics.js
\* Durations and timestamps are in milliseconds; the statistics that
\* calculateStats rounds to two decimals are counted in hundredths.

\* Math.floor(x * 100) / 100
Round2Down(num, den) == (100 * num) \div den

\* Math.round(x * 100) / 100 of x = num / den >= 0, in hundredths
Round2(num, den) == (2 * 100 * num + den) \div (2 * den)

RECURSIVE Sum(_)
Sum(s) == IF s = <<>> THEN 0 ELSE Head(s) + Sum(Tail(s))

\* durations.sort((a, b) => a - b)
RECURSIVE SortAscending(_)
SortAscending(s) ==
  IF s = <<>> THEN <<>>
  ELSE LET m == CHOOSE i \in 1..Len(s) : \A j \in 1..Len(s) : s[i] <= s[j]
       IN <<s[m]>> \o SortAscending(SubSeq(s, 1, m - 1)
                                    \o SubSeq(s, m + 1, Len(s)))

Ceil(num, den) == (num + den - 1) \div den

Min(a, b) == IF a <= b THEN a ELSE b

\* a percentile that takes Math.floor(p * arr.length) as the index
percentileFloor(arr, p) ==
  IF Len(arr) = 0 THEN 0
  ELSE LET idx == (p * Len(arr)) \div 100
       IN arr[Min(idx, Len(arr) - 1) + 1]

\* percentile(arr, p), p in hundredths; arr[k] of JS is arr[k + 1] here
percentile(arr, p) ==
  IF Len(arr) = 0 THEN 0
  ELSE LET idx == Ceil(p * Len(arr), 100) - 1
       IN arr[Min(idx, Len(arr) - 1) + 1]

\* the share of the misses
cacheHitRatioOfMisses(hits, misses) ==
  IF hits + misses > 0 THEN Round2(misses * 100, hits + misses) ELSE 0

\* totalCacheOps > 0 ? (cacheHits / totalCacheOps) * 100 : 0, rounded
cacheHitRatio(hits, misses) ==
  IF hits + misses > 0 THEN Round2(hits * 100, hits + misses) ELSE 0

\* a throughput that divides by the time span whatever it is
throughputUnguarded(n, timeSpan) ==
  IF timeSpan > 0 THEN Round2(n * 1000, timeSpan) ELSE NaN

\* requests.length >= 2: timeSpan > 0 ? requests.length / timeSpan : 0,
\* timeSpan in milliseconds here, the result in requests per second
throughput(n, timeSpan) ==
  IF n >= 2 /\ timeSpan > 0 THEN Round2(n * 1000, timeSpan) ELSE 0

\* requests.filter(r => r.statusCode >= 400).length
errorCount(samples) ==
  Cardinality({i \in 1..Len(samples) : samples[i].statusCode >= 400})

\* calculateStats from its line 65 on, of at least one request sample
Summary ==
  LET n == Len(requests)
      durations == SortAscending([i \in 1..n |-> requests[i].duration])
      dbDurations == [i \in 1..Len(dbQueries) |-> dbQueries[i].duration]
      timeSpan == requests[n].timestamp - requests[1].timestamp
  IN [requestCount |-> n,
      errorCount |-> errorCount(requests),
      avgLatency |-> Round2(Sum(durations), n),
      p95Latency |-> Round2(percentile(durations, 95), 1),
      throughput |-> throughput(n, timeSpan),
      avgDbTime |->
        IF Len(dbDurations) > 0
        THEN Round2(Sum(dbDurations), Len(dbDurations)) ELSE 0,
      cacheHitRatio |-> cacheHitRatio(cacheHits, cacheMisses)]

\* calculateStats without its early return: the mean of no duration is
\* 0 / 0, the other statistics are computed as of line 65 on
calculateStatsNoEarlyReturn ==
  IF Len(requests) = 0
  THEN [ZeroStats EXCEPT
          !.avgLatency = NaN,
          !.avgDbTime =
            IF Len(dbQueries) > 0
            THEN Round2(Sum([i \in 1..Len(dbQueries) |->
                               dbQueries[i].duration]), Len(dbQueries))
            ELSE 0,
          !.cacheHitRatio = cacheHitRatio(cacheHits, cacheMisses)]
  ELSE Summary

calculateStats == IF Len(requests) = 0 THEN ZeroStats ELSE Summary

\* The samples of a run: the first duration is any of FirstDurations, the
\* k-th is k times the first modulo MaxDuration (ascending, descending,
\* mixed, or all equal); requests follow one another without a pause.
FirstDurations == {0, 1, 7, MaxDuration - 1}

StatusOf(d) ==
  IF d % 5 = 0 THEN 500
  ELSE IF d % 3 = 0 THEN 404 ELSE IF d % 7 = 0 THEN 400 ELSE 200

NextSample(first) ==
  LET k == Len(requests) + 1
      d == (first * k) % MaxDuration
  IN [duration |-> d,
      timestamp |-> (IF k = 1 THEN 0 ELSE requests[k - 1].timestamp) + d,
      statusCode |-> StatusOf(d)]

\* metricsMiddleware: res.on('finish', () => recordRequest(req, res, ..))
recordRequest(first) ==
  /\ Len(requests) < MaxSamples
  /\ requests # <<>> => first = requests[1].duration
  /\ requests' = Append(requests, NextSample(first))
  /\ stats' = NoStats
  /\ UNCHANGED <<envVars, now, files, proc, storeVars, redisVars, metricVars, reqs,
                 faults, invalidated>>

DbDurations == {3, 4}

\* the texts passed to recordDbQuery: of the length of the shortest
\* literal (SELECT * FROM users WHERE id = $1), around FingerprintLength,
\* up to MaxQueryLength, and the text of the recommendations query
QueryTexts ==
  {UsersQuery, Text(RecommendationsQueryLength)}
  \cup {Text(n) : n \in (FingerprintLength - 1)..MaxQueryLength}

\* recordDbQuery(query, duration); length is the length of the text that
\* was passed (the code does not keep it)
recordDbQuery(query, duration) ==
  /\ Len(dbQueries) < MaxDbQueries
  /\ dbQueries' = Append(dbQueries,
                         [query |-> substring(query, 0, FingerprintLength),
                          length |-> Len(query),
                          duration |-> duration,
                          timestamp |-> now * 1000])
  /\ stats' = NoStats
  /\ UNCHANGED <<envVars, now, requests, files, proc, storeVars, redisVars,
                 cacheHits, cacheMisses, reqs, faults, invalidated>>

recordCacheHit ==
  /\ cacheHits < MaxHits
  /\ cacheHits' = cacheHits + 1
  /\ stats' = NoStats
  /\ UNCHANGED <<envVars, now, requests, files, proc, storeVars, redisVars,
                 cacheMisses, dbQueries, reqs, faults, invalidated>>

recordCacheMiss ==
  /\ cacheMisses < MaxMisses
  /\ cacheMisses' = cacheMisses + 1
  /\ stats' = NoStats
  /\ UNCHANGED <<envVars, now, requests, files, proc, storeVars, redisVars,
                 cacheHits, dbQueries, reqs, faults, invalidated>>

\* a calculateStats that sorts the durations of metrics.requests in place
GetMetricsSortsInPlace ==
  LET n == Len(requests)
      sorted == SortAscending([i \in 1..n |-> requests[i].duration])
  IN /\ stats' = [valid |-> TRUE, value |-> calculateStats]
     /\ requests' = [i \in 1..n |-> [requests[i] EXCEPT !.duration = sorted[i]]]
     /\ UNCHANGED <<envVars, now, files, proc, storeVars, redisVars, metricVars,
                    reqs, faults, invalidated>>

\* app.get('/metrics'): const stats = calculateStats()
GetMetrics ==
  /\ stats' = [valid |-> TRUE, value |-> calculateStats]
  /\ UNCHANGED <<envVars, now, requests, files, proc, storeVars, redisVars,
                 metricVars, reqs, faults, invalidated>>

\* a 'finish' listener that stores the sample at the place of the request
\* among the requests answered so far, in order of arrival
FinishAtArrivalIndex(i) ==
  LET r == reqs[i]
      sample == [duration |-> (now - r.start) * 1000,
                 timestamp |-> now * 1000,
                 statusCode |-> r.status]
      at == Cardinality({j \in 1..(i - 1) : reqs[j].finished}) + 1
  IN /\ i \in 1..Len(reqs)
     /\ r.pc = "done"
     /\ r.status # NoResponse
     /\ ~r.finished
     /\ requests' = IF at <= Len(requests)
                    THEN [requests EXCEPT ![at] = sample]
                    ELSE Append(requests, sample)
     /\ stats' = NoStats
     /\ Set(i, [r EXCEPT !.finished = TRUE])
     /\ UNCHANGED <<envVars, now, files, proc, storeVars, redisVars, metricVars,
                    faults, invalidated>>

\* 'finish' of a response that has been sent; for a request that passed
\* metricsMiddleware its listener runs:
\* recordRequest(req, res, Date.now() - start)
Finish(i) ==
  LET r == reqs[i]
  IN /\ i \in 1..Len(reqs)
     /\ r.pc = "done"
     /\ r.status # NoResponse
     /\ ~r.finished
     /\ requests' = IF r.measured
                     THEN Append(requests,
                                 [duration |-> (now - r.start) * 1000,
                                  timestamp |-> now * 1000,
                                  statusCode |-> r.status])
                     ELSE requests
     /\ stats' = IF r.measured THEN NoStats ELSE stats
     /\ Set(i, [r EXCEPT !.finished = TRUE])
     /\ UNCHANGED <<envVars, now, files, proc, storeVars, redisVars, metricVars,
                    faults, invalidated>>

\* a body with the mean under p95_ms and the percentile under avg_ms
MetricsBodySwapped(s) ==
  [NoBody EXCEPT
     !.fields = {"requests", "errors", "avg_ms", "p95_ms", "cache_hit_ratio"},
     !.metrics = [requests |-> s.requestCount,
                  errors |-> s.errorCount,
                  avg_ms |-> s.p95Latency,
                  p95_ms |-> s.avgLatency,
                  cache_hit_ratio |-> s.cacheHitRatio]]

\* res.json({requests: stats.requestCount || 0, ..}) of a snapshot
MetricsBody(s) ==
  [NoBody EXCEPT
     !.fields = {"requests", "errors", "avg_ms", "p95_ms", "cache_hit_ratio"},
     !.metrics = [requests |-> IF s.requestCount = NaN THEN 0
                               ELSE s.requestCount,
                  errors |-> IF s.errorCount = NaN THEN 0 ELSE s.errorCount,
                  avg_ms |-> IF s.avgLatency = NaN THEN 0 ELSE s.avgLatency,
                  p95_ms |-> IF s.p95Latency = NaN THEN 0 ELSE s.p95Latency,
                  cache_hit_ratio |-> IF s.cacheHitRatio = NaN THEN 0
                                      ELSE s.cacheHitRatio]]

\* a handler that counts as errors the error responses sent so far,
\* finished or not
MetricsArriveCountsSent ==
  LET r == NewRequest("metrics", Undefined, "undefined", <<>>)
      sent == Cardinality({j \in 1..Len(reqs) : reqs[j].status >= 400})
  IN /\ reqs' = Append(reqs, Respond(r, 200,
                   MetricsBody([calculateStats EXCEPT !.errorCount = sent])))
     /\ UNCHANGED <<envVars, now, seriesVars, storeVars, redisVars,
                    metricVars, faults, invalidated>>

\* app.get('/metrics'): the handler has no await, the snapshot is taken
\* and the response sent in the turn in which the request arrives
MetricsArrive ==
  LET r == NewRequest("metrics", Undefined, "undefined", <<>>)
  IN /\ reqs' = Append(reqs, Respond(r, 200, MetricsBody(calculateStats)))
     /\ UNCHANGED <<envVars, now, seriesVars, storeVars, redisVars,
                    metricVars, faults, invalidated>>

\* a request that no router matches, after metricsMiddleware: Express
\* answers 404
NotFoundArrive ==
  LET r == NewRequest("unknown", Undefined, "undefined", <<>>)
  IN /\ reqs' = Append(reqs, Respond(r, 404, ErrorBody("Cannot GET")))
     /\ UNCHANGED <<envVars, now, seriesVars, storeVars, redisVars,
                    metricVars, faults, invalidated>>

\* process.env.APP_VERSION || 'baseline', read when the export runs
ExportVersion ==
  IF processEnv.APP_VERSION = Unset THEN "baseline"
  ELSE processEnv.APP_VERSION

\* results/<subdir>/metrics-<version>-<timestamp>.csv and
\* results/<subdir>/requests-<version>-<timestamp>.csv, as one name
ExportName ==
  [subdir |-> IF ExportVersion = "optimized" THEN "gemini" ELSE "baseline",
   version |-> ExportVersion,
   timestamp |-> now * 1000]

\* the summary file (five statistics) and the request log (one row per
\* request sample: timestamp, duration)
ExportFile ==
  LET s == calculateStats
  IN [name |-> ExportName,
      summary |-> [avgLatency |-> s.avgLatency, p95Latency |-> s.p95Latency,
                   throughput |-> s.throughput, avgDbTime |-> s.avgDbTime,
                   cacheHitRatio |-> s.cacheHitRatio],
      rows |-> [i \in 1..Len(requests) |->
                  [timestamp |-> requests[i].timestamp,
                   duration |-> requests[i].duration]]]

\* an export that starts the next measurement from empty metrics
exportToCSVResets ==
  /\ files' = {f \in files : f.name # ExportName} \cup {ExportFile}
  /\ requests' = <<>>
  /\ dbQueries' = <<>>
  /\ cacheHits' = 0
  /\ cacheMisses' = 0
  /\ stats' = NoStats
  /\ UNCHANGED <<envVars, now, proc, storeVars, redisVars, reqs, faults,
                 invalidated>>

\* exportToCSV(): fs.writeFileSync replaces a file of the same name
exportToCSV ==
  /\ files' = {f \in files : f.name # ExportName} \cup {ExportFile}
  /\ UNCHANGED <<envVars, now, requests, stats, proc, storeVars, redisVars,
                 metricVars, reqs, faults, invalidated>>

\* fs.writeFileSync(filename, ..) of exportToCSV: filename is relative to
\* the working directory of the process, while the directory that
\* exportToCSV creates is resultsDir/<subdir>, relative to the module
\* (__dirname/../../results); the write throws ENOENT when the working
\* directory has no results/<subdir>
FsOutcomes == {"ok", "ENOENT"}

Signals == {"SIGINT", "SIGTERM"}

\* process.on(sig, () => { exportToCSV(); process.exit(0); }): the listener
\* runs to its end on the one thread; an exception thrown by exportToCSV is
\* caught by nothing and ends the process with code 1 before process.exit(0)
Signal(sig, o) ==
  /\ proc.state = "running"
  /\ files' = IF o = "ok"
               THEN {f \in files : f.name # ExportName} \cup {ExportFile}
               ELSE files
  /\ proc' = [state |-> "exited", code |-> IF o = "ok" THEN 0 ELSE 1,
              cause |-> sig, flushed |-> o = "ok"]
  /\ UNCHANGED <<envVars, now, requests, stats, storeVars, redisVars,
                 metricVars, reqs, faults, invalidated>>

\* POST /metrics/export: const filename = exportToCSV();
\* res.json({message: 'Metrics exported', filename}); an exception thrown
\* by exportToCSV goes to the default error handler of Express (500)
ExportArrive(o) ==
  LET r == NewRequest("export", Undefined, "undefined", <<>>)
  IN /\ files' = IF o = "ok"
                  THEN {f \in files : f.name # ExportName} \cup {ExportFile}
                  ELSE files
     /\ reqs' = Append(reqs,
                  IF o = "ok"
                  THEN Respond(r, 200,
                               [NoBody EXCEPT !.fields = {"message", "filename"},
                                              !.message = "Metrics exported",
                                              !.filename = ExportName])
                  ELSE Respond(r, 500, [NoBody EXCEPT !.error = o]))
     /\ UNCHANGED <<envVars, now, requests, stats, proc, storeVars,
                    redisVars, metricVars, faults, invalidated>>

\* GET /health: res.json({status: 'ok', version: APP_VERSION,
\* timestamp: new Date().toISOString()})
HealthArrive ==
  LET r == NewRequest("health", Undefined, "undefined", <<>>)
  IN /\ reqs' = Append(reqs,
                  Respond(r, 200,
                          [NoBody EXCEPT
                             !.fields = {"status", "version", "timestamp"},
                             !.status = "ok",
                             !.version = IF APP_VERSION = Unset
                                         THEN "baseline" ELSE APP_VERSION,
                             !.timestamp = now * 1000]))
     /\ UNCHANGED <<envVars, now, seriesVars, storeVars, redisVars,
                    metricVars, faults, invalidated>>

\* a request with Content-Type application/json whose body is not JSON:
\* express.json() passes the parse error on, Express skips every
\* middleware that is not an error handler, metricsMiddleware included,
\* and its default error handler answers 400
MalformedArrive ==
  LET r == [NewRequest("malformed", Undefined, "undefined", <<>>)
              EXCEPT !.measured = FALSE]
  IN /\ reqs' = Append(reqs,
                  Respond(r, 400, [NoBody EXCEPT !.error = "SyntaxError"]))
     /\ UNCHANGED <<envVars, now, seriesVars, storeVars, redisVars,
                    metricVars, faults, invalidated>>

\* an OPTIONS request: cors() answers it itself (204, empty body) and does
\* not call next, so metricsMiddleware is not reached
PreflightArrive ==
  LET r == [NewRequest("preflight", Undefined, "undefined", <<>>)
              EXCEPT !.measured = FALSE]
  IN /\ reqs' = Append(reqs, Respond(r, 204, NoBody))
     /\ UNCHANGED <<envVars, now, seriesVars, storeVars, redisVars,
                    metricVars, faults, invalidated>>

\* ---------------------------------------------------------- specifications
Requests == 1..Len(reqs)

InFlight == Cardinality({i \in Requests : reqs[i].pc # "done"})

\* request bodies of the cached system: one valid item
CacheBodies == [userId : Users, itemsType : {"array"}, items : {<<Item(1, 1)>>}]

\* the cached system: recommendation reads and checkouts, at most
\* MaxInFlight of them in flight; failures are injected into the cache
\* commands and the data query of the reads (those of the data-store
\* commands of a checkout are the subject of the other two systems)
MayArrive == Len(reqs) < MaxRequests /\ InFlight < MaxInFlight

Next ==
  \/ \E b \in CacheBodies : MayArrive /\ CheckoutArrive(b)
  \/ \E u \in Users : MayArrive /\ RecsArrive(u)
  \/ \E i \in Requests : OptConnect(i, "ok")
  \/ \E i \in Requests : OptBegin(i, "ok")
  \/ \E i \in Requests : OptSelect(i, "ok")
  \/ \E i \in Requests : OptInsertOrder(i, "ok")
  \/ \E i \in Requests : OptInsertItems(i, "ok")
  \/ \E i \in Requests : OptCommit(i, "ok")
  \/ \E i \in Requests, o \in CacheOutcomes : OptDel(i, o)
  \/ \E i \in Requests : OptRollback(i, "ok")
  \/ \E i \in Requests : BasePrice(i, "ok")
  \/ \E i \in Requests : BaseInsertOrder(i, "ok")
  \/ \E i \in Requests : BaseReprice(i, "ok")
  \/ \E i \in Requests : BaseInsertItem(i, "ok")
  \/ \E i \in Requests, o \in CacheOutcomes : RecsGet(i, o)
  \/ \E i \in Requests, o \in PoolOutcomes : RecsQuery(i, o)
  \/ \E i \in Requests, o \in CacheOutcomes : RecsSetEx(i, o)
  \/ RedisDown
  \/ RedisUp

Spec == Init /\ [][Next]_vars

\* the transactional system: concurrent checkouts of the optimized handler
InitTx == Init /\ APP_VERSION = "optimized"

NextTx ==
  \/ \E b \in ConcBodies : Len(reqs) < MaxCheckouts /\ CheckoutArrive(b)
  \/ \E i \in Requests, o \in {"ok", "lost"} : OptConnect(i, o)
  \/ \E i \in Requests, o \in DbOutcomes : OptBegin(i, o)
  \/ \E i \in Requests, o \in DbOutcomes : OptSelect(i, o)
  \/ \E i \in Requests, o \in DbOutcomes : OptInsertOrder(i, o)
  \/ \E i \in Requests, o \in DbOutcomes : OptInsertItems(i, o)
  \/ \E i \in Requests, o \in DbOutcomes : OptCommit(i, o)
  \/ \E i \in Requests, o \in CacheOutcomes : OptDel(i, o)
  \/ \E i \in Requests, o \in {"ok", "lost"} : OptRollback(i, o)
  \/ RedisDown
  \/ RedisUp

SpecTx == InitTx /\ [][NextTx]_vars

\* the transactional system with statements that may never return: the
\* other commands all succeed; a command that returns lets the handler
\* run to its next await (the event loop runs every callback that is
\* ready)
Returns ==
  \/ \E i \in Requests : OptConnect(i, "ok")
  \/ \E i \in Requests : OptBegin(i, "ok")
  \/ \E i \in Requests : OptSelect(i, "ok")
  \/ \E i \in Requests : OptInsertOrder(i, "ok")
  \/ \E i \in Requests : OptInsertItems(i, "ok")
  \/ \E i \in Requests : OptCommit(i, "ok")
  \/ \E i \in Requests : OptDel(i, "ok")
  \/ \E i \in Requests : OptRollback(i, "ok")

NextPending ==
  \/ \E b \in ConcBodies : Len(reqs) < MaxCheckouts /\ CheckoutArrive(b)
  \/ Returns
  \/ \E i \in Requests : OptNeverReturns(i)

SpecPending == InitTx /\ [][NextPending]_vars /\ WF_vars(Returns)

\* the transactional system with an exhausted pool: the wait for a
\* connection may time out, the other commands all succeed; requests
\* arrive while the process runs
NextPool ==
  \/ \E b \in ConcBodies :
       /\ Len(reqs) < MaxCheckouts
       /\ proc.state = "running"
       /\ CheckoutArrive(b)
  \/ \E i \in Requests, o \in {"ok", "timeout"} : OptConnect(i, o)
  \/ \E i \in Requests : OptBegin(i, "ok")
  \/ \E i \in Requests : OptSelect(i, "ok")
  \/ \E i \in Requests : OptInsertOrder(i, "ok")
  \/ \E i \in Requests : OptInsertItems(i, "ok")
  \/ \E i \in Requests : OptCommit(i, "ok")
  \/ \E i \in Requests : OptDel(i, "ok")
  \/ \E i \in Requests : OptRollback(i, "ok")
  \/ \E i \in Requests : UnhandledRejection(i)

SpecPool == InitTx /\ [][NextPool]_vars

\* the sequential system: one checkout with any body
NextSeq ==
  \/ \E b \in SeqBodies : reqs = <<>> /\ CheckoutArrive(b)
  \/ \E i \in Requests, o \in {"ok", "lost"} : OptConnect(i, o)
  \/ \E i \in Requests, o \in DbOutcomes : OptBegin(i, o)
  \/ \E i \in Requests, o \in DbOutcomes : OptSelect(i, o)
  \/ \E i \in Requests, o \in DbOutcomes : OptInsertOrder(i, o)
  \/ \E i \in Requests, o \in DbOutcomes : OptInsertItems(i, o)
  \/ \E i \in Requests, o \in DbOutcomes : OptCommit(i, o)
  \/ \E i \in Requests, o \in CacheOutcomes : OptDel(i, o)
  \/ \E i \in Requests, o \in {"ok", "lost"} : OptRollback(i, o)
  \/ \E i \in Requests, o \in PoolOutcomes : BasePrice(i, o)
  \/ \E i \in Requests, o \in PoolOutcomes : BaseInsertOrder(i, o)
  \/ \E i \in Requests, o \in PoolOutcomes : BaseReprice(i, o)
  \/ \E i \in Requests, o \in PoolOutcomes : BaseInsertItem(i, o)
  \/ RedisDown
  \/ RedisUp

SpecSeq == Init /\ [][NextSeq]_vars

\* the timed cache: reads, one after the other, and one checkout while the
\* clock advances; the cache backend is ready or not from the start and
\* every command succeeds
ReadInFlight ==
  \E i \in Requests : reqs[i].kind = "recs" /\ reqs[i].pc # "done"

MayRead ==
  /\ Cardinality({i \in Requests : reqs[i].kind = "recs"}) < MaxReads
  /\ ~ReadInFlight

MayWrite == \A i \in Requests : reqs[i].kind # "checkout"

NextTTL ==
  \/ \E b \in CacheBodies : MayWrite /\ CheckoutArrive(b)
  \/ \E u \in Users : MayRead /\ RecsArrive(u)
  \/ \E i \in Requests : OptConnect(i, "ok")
  \/ \E i \in Requests : OptBegin(i, "ok")
  \/ \E i \in Requests : OptSelect(i, "ok")
  \/ \E i \in Requests : OptInsertOrder(i, "ok")
  \/ \E i \in Requests : OptInsertItems(i, "ok")
  \/ \E i \in Requests : OptCommit(i, "ok")
  \/ \E i \in Requests : OptDel(i, "ok")
  \/ \E i \in Requests : BasePrice(i, "ok")
  \/ \E i \in Requests : BaseInsertOrder(i, "ok")
  \/ \E i \in Requests : BaseReprice(i, "ok")
  \/ \E i \in Requests : BaseInsertItem(i, "ok")
  \/ \E i \in Requests : RecsGet(i, "ok")
  \/ \E i \in Requests : RecsQuery(i, "ok")
  \/ \E i \in Requests : RecsSetEx(i, "ok")
  \/ Tick

SpecTTL == Init /\ [][NextTTL]_vars

\* the toggles: a process started in any environment serves a checkout
\* and a read, in any order, while process.env is assigned to
InitMode ==
  /\ APP_VERSION \in EnvValues("APP_VERSION")
  /\ ENABLE_REDIS_CACHE \in EnvValues("ENABLE_REDIS_CACHE")
  /\ ENABLE_BATCH_DASHBOARD \in EnvValues("ENABLE_BATCH_DASHBOARD")
  /\ ENABLE_OPT_SEARCH \in EnvValues("ENABLE_OPT_SEARCH")
  /\ Started

MayServe(kind) ==
  \A i \in Requests : reqs[i].kind # kind /\ reqs[i].pc = "done"

NextMode ==
  \/ \E n \in EnvNames : \E v \in EnvValues(n) : SetEnv(n, v)
  \/ \E b \in CacheBodies : MayServe("checkout") /\ CheckoutArrive(b)
  \/ \E u \in Users : MayServe("recs") /\ RecsArrive(u)
  \/ \E i \in Requests : OptConnect(i, "ok")
  \/ \E i \in Requests : OptBegin(i, "ok")
  \/ \E i \in Requests : OptSelect(i, "ok")
  \/ \E i \in Requests : OptInsertOrder(i, "ok")
  \/ \E i \in Requests : OptInsertItems(i, "ok")
  \/ \E i \in Requests : OptCommit(i, "ok")
  \/ \E i \in Requests : OptDel(i, "ok")
  \/ \E i \in Requests : BasePrice(i, "ok")
  \/ \E i \in Requests : BaseInsertOrder(i, "ok")
  \/ \E i \in Requests : BaseReprice(i, "ok")
  \/ \E i \in Requests : BaseInsertItem(i, "ok")
  \/ \E i \in Requests : RecsGet(i, "ok")
  \/ \E i \in Requests : RecsQuery(i, "ok")
  \/ \E i \in Requests : RecsSetEx(i, "ok")

SpecMode == InitMode /\ [][NextMode]_vars

\* the metrics module: samples, data queries and cache operations are
\* recorded in any order and the statistics are computed at any time; a
\* run has at most MaxRequests request samples together with data queries
\* and cache operations (Mixed), or up to MaxSamples request samples alone
InitStats == Init /\ APP_VERSION = "optimized" /\ isReady

NoOperation == cacheHits = 0 /\ cacheMisses = 0 /\ dbQueries = <<>>
Mixed == Len(requests) <= MaxRequests

NextStats ==
  \/ \E first \in FirstDurations :
       (Len(requests) < MaxRequests \/ NoOperation) /\ recordRequest(first)
  \/ \E d \in DbDurations : Mixed /\ recordDbQuery(UsersQuery, d)
  \/ Mixed /\ recordCacheHit
  \/ Mixed /\ recordCacheMiss
  \/ GetMetrics

SpecStats == InitStats /\ [][NextStats]_vars

\* the metrics module with its export: at most MaxRecorded records of each
\* kind, the data queries all of one duration
NextExport ==
  \/ \E first \in FirstDurations :
       Len(requests) < MaxRecorded /\ recordRequest(first)
  \/ \E d \in DbDurations :
       /\ Len(dbQueries) < MaxRecorded
       /\ \A e \in DbDurations : d <= e
       /\ recordDbQuery(UsersQuery, d)
  \/ cacheHits < MaxRecorded /\ recordCacheHit
  \/ cacheMisses < MaxRecorded /\ recordCacheMiss
  \/ GetMetrics
  \/ exportToCSV

SpecExport == InitStats /\ [][NextExport]_vars

\* the query series: texts of any of the lengths are recorded
NextQueries ==
  \/ \E q \in QueryTexts, d \in DbDurations : recordDbQuery(q, d)
  \/ GetMetrics

SpecQueries == InitStats /\ [][NextQueries]_vars

\* the instrumented server: up to MaxServed recommendation reads (the data
\* query may fail) and one GET /metrics, each recorded when its response
\* has finished; a request arrives while at most one other is being
\* served or not finished yet, and the clock advances once, during a data
\* query
MayBeServed ==
  \A i, j \in Requests : ~reqs[i].finished /\ ~reqs[j].finished => i = j

Served(kind) == {i \in Requests : reqs[i].kind = kind}

MayBeRead == Cardinality(Served("recs")) < MaxServed

NextServer ==
  \/ \E u \in Users : MayBeServed /\ MayBeRead /\ RecsArrive(u)
  \/ \E i \in Requests : RecsGet(i, "ok")
  \/ \E i \in Requests, o \in PoolOutcomes : RecsQuery(i, o)
  \/ \E i \in Requests : RecsSetEx(i, "ok")
  \/ MayBeServed /\ Served("metrics") = {} /\ MetricsArrive
  \/ \E i \in Requests : Finish(i)
  \/ now = 0 /\ (\E i \in Requests : reqs[i].pc = "query") /\ Tick

SpecServer == InitStats /\ [][NextServer]_vars

\* the routes that answer errors: recommendation reads whose data query
\* may fail (500), one checkout of an empty cart (400), one request of an
\* unknown route (404), one request whose body is not JSON (400) and one
\* GET /metrics, one request after the other
EmptyCarts == [userId : Users, itemsType : {"array"}, items : {<<>>}]

Idle == \A i \in Requests : reqs[i].finished

NextErrors ==
  \/ \E u \in Users : Idle /\ MayBeRead /\ RecsArrive(u)
  \/ \E i \in Requests : RecsGet(i, "ok")
  \/ \E i \in Requests, o \in PoolOutcomes : RecsQuery(i, o)
  \/ \E i \in Requests : RecsSetEx(i, "ok")
  \/ \E b \in EmptyCarts :
       Idle /\ Served("checkout") = {} /\ CheckoutArrive(b)
  \/ Idle /\ Served("unknown") = {} /\ NotFoundArrive
  \/ Idle /\ Served("malformed") = {} /\ MalformedArrive
  \/ Idle /\ Served("metrics") = {} /\ MetricsArrive
  \/ \E i \in Requests : Finish(i)

SpecErrors == InitStats /\ [][NextErrors]_vars

\* the routes of the application itself and the shutdown: up to MaxServed
\* requests to /health, /metrics, /metrics/export, an unknown route, with a
\* body that is not JSON, or OPTIONS; a request arrives while at most one
\* other response has not finished; a signal ends the process
Up == proc.state = "running"

MayArriveAtRoutes == Up /\ MayBeServed /\ Len(reqs) < MaxServed

NextRoutes ==
  \/ MayArriveAtRoutes /\ HealthArrive
  \/ MayArriveAtRoutes /\ MetricsArrive
  \/ \E o \in FsOutcomes : MayArriveAtRoutes /\ ExportArrive(o)
  \/ MayArriveAtRoutes /\ NotFoundArrive
  \/ MayArriveAtRoutes /\ MalformedArrive
  \/ MayArriveAtRoutes /\ PreflightArrive
  \/ \E i \in Requests : Up /\ Finish(i)
  \/ \E sig \in Signals, o \in FsOutcomes : Signal(sig, o)

SpecRoutes == InitStats /\ [][NextRoutes]_vars

\* the dashboard: one request, for the seeded user, a user that does not
\* exist or an id that is no number, served by the handler that the
\* environment selects, over any of the data stores; a query may fail
InitDashboard ==
  /\ TestRun
  /\ \E d \in DashboardStores : StartedWith(d)
  /\ isReady = CacheEnabled

NextDashboard ==
  \/ \E p \in DashboardParams : reqs = <<>> /\ DashboardArrive(p)
  \/ \E i \in Requests, o \in PoolOutcomes : DashBatched(i, o)
  \/ \E i \in Requests, o \in PoolOutcomes : DashUser(i, o)
  \/ \E i \in Requests, o \in PoolOutcomes : DashOrders(i, o)
  \/ \E i \in Requests, o \in PoolOutcomes : DashItems(i, o)
  \/ \E i \in Requests, o \in PoolOutcomes : DashPrefs(i, o)
  \/ \E i \in Requests, o \in PoolOutcomes : DashActivity(i, o)

SpecDashboard == InitDashboard /\ [][NextDashboard]_vars

\* ================================================================ claims
Checkouts == {i \in Requests : reqs[i].kind = "checkout"}
Reads == {i \in Requests : reqs[i].kind = "recs"}
Done(i) == reqs[i].pc = "done"

HeaderIn(d, id) == \E o \in d.orders : o.id = id
RowsOf(d, id) == {oi \in d.order_items : oi.order_id = id}
NothingPersisted(d, r) ==
  r.orderId # 0 => ~HeaderIn(d, r.orderId) /\ RowsOf(d, r.orderId) = {}

MissingProduct(r) ==
  \E j \in 1..Len(r.items) : r.items[j].productId \notin ProductIds

\* C1: with the cache enabled and the backend available throughout, the
\* first read of user X that begins after a successful optimized checkout of
\* X returns no content computed before that checkout committed: what it
\* returns was computed from a store that holds the order of the checkout.
C1_NextReadIsFresh ==
  \A i \in Reads :
    (Done(i) /\ reqs[i].status = 200 /\ CacheEnabled /\ ~everDown
       /\ reqs[i].mustSee # {})
    => reqs[i].mustSee \subseteq reqs[i].body.asOf

\* C2: in every committed state of the store an order of the optimized
\* checkout is there with its header and all its line items or not at all,
\* and no line item is there without its header.
C2_OptimizedAllOrNothing ==
  CheckoutOptimized =>
    /\ \A oi \in db.order_items : HeaderIn(db, oi.order_id)
    /\ \A i \in Checkouts :
         LET r == reqs[i]
             rows == RowsOf(db, r.orderId)
         IN r.orderId # 0 =>
              \/ ~HeaderIn(db, r.orderId) /\ rows = {}
              \/ /\ HeaderIn(db, r.orderId)
                 /\ Cardinality(rows) = Len(r.items)
                 /\ \A j \in 1..Len(r.items) :
                      \E row \in rows :
                        /\ row.product_id = r.items[j].productId
                        /\ row.quantity = r.items[j].quantity

\* an order of two items is committed while another checkout has written
\* its header, and not yet its items, inside its transaction
C2_Witness ==
  /\ CheckoutOptimized
  /\ \E i, j \in Checkouts :
       /\ i # j
       /\ HeaderIn(db, reqs[i].orderId)
       /\ Len(reqs[i].items) = 2
       /\ reqs[j].pc = "insertItems"
       /\ reqs[j].tx.orders # {}

\* C3: an optimized checkout that is answered with a failure has left
\* neither its order header nor any of its line items in the store.
C3_FailureLeavesNothing ==
  CheckoutOptimized =>
    \A i \in Checkouts :
      (Done(i) /\ reqs[i].status >= 400) => NothingPersisted(db, reqs[i])

ThirdOfFiveMissing(r) ==
  /\ Len(r.items) = 5
  /\ r.items[3].productId = MissingProductId
  /\ r.items[1].productId \in ProductIds
  /\ r.items[2].productId \in ProductIds

RECURSIVE ExpectedTotal(_, _)
ExpectedTotal(items, n) ==
  IF n = 0 THEN 0
  ELSE ExpectedTotal(items, n - 1)
       + (products[items[n].productId].units * 100
          + products[items[n].productId].cents) * items[n].quantity

Line(p, q, price) == [product_id |-> p, quantity |-> q, price |-> price]
LineOfRow(row) == Line(row.product_id, row.quantity, row.price)
LineOfItem(item) ==
  Line(item.productId, item.quantity, products[item.productId])

ValidBody(r) ==
  /\ ~InvalidRequest(r)
  /\ \A j \in 1..Len(r.items) :
       r.items[j].productId \in ProductIds /\ r.items[j].quantity >= 0

\* C5: a valid checkout without failure ends, in the naive and in the
\* optimized handler alike, with status 200, the total of the items in the
\* response, one order row (user, that total, pending) and the line items
\* of the request as a multiset of (product, quantity, price).
C5_SameFinalState ==
  \A i \in Checkouts :
    LET r == reqs[i]
        rows == RowsOf(db, r.orderId)
        total == ExpectedTotal(r.items, Len(r.items))
    IN (Done(i) /\ faults = 0 /\ ValidBody(r)) =>
         /\ r.status = 200
         /\ r.body.total = total
         /\ r.body.orderId = r.orderId
         /\ {o \in db.orders : o.id = r.orderId}
              = {[id |-> r.orderId, user_id |-> r.userId,
                  total_amount |-> Dec(total \div 100, total % 100),
                  status |-> "pending"]}
         /\ Cardinality(rows) = Len(r.items)
         /\ \A l \in {LineOfItem(r.items[j]) : j \in 1..Len(r.items)} :
              Cardinality({row \in rows : LineOfRow(row) = l})
                = Cardinality({j \in 1..Len(r.items) : LineOfItem(r.items[j]) = l})

\* the naive handler has finished a checkout of two different items, the
\* second with quantity 2, without failure
C5_Witness ==
  \E i \in Checkouts :
    /\ ~CheckoutOptimized
    /\ Done(i) /\ faults = 0 /\ ValidBody(reqs[i])
    /\ reqs[i].items = <<Item(1, 1), Item(2, 2)>>
    /\ reqs[i].status = 200

\* C6: an optimized checkout that references a nonexistent product is
\* answered with a 4xx status.
C6_MissingProductIsClientError ==
  CheckoutOptimized =>
    \A i \in Checkouts :
      (Done(i) /\ reqs[i].failKind = "notfound" /\ faults = 0)
      => reqs[i].status \in 400..499

\* C7: an optimized checkout that references a nonexistent product never
\* issues an INSERT and never has a row, neither in its transaction nor in
\* the store.
C7_NoWriteWhenProductMissing ==
  CheckoutOptimized =>
    \A i \in Checkouts :
      (~InvalidRequest(reqs[i]) /\ MissingProduct(reqs[i]))
      => /\ reqs[i].inserts = 0
         /\ reqs[i].orderId = 0
         /\ reqs[i].tx.orders = {} /\ reqs[i].tx.order_items = {}
         /\ db.orders = {} /\ db.order_items = {}

\* the validation has thrown on a second item that is missing and the
\* handler has finished
C7_Witness ==
  /\ CheckoutOptimized
  /\ \E i \in Checkouts :
       /\ Done(i)
       /\ reqs[i].failedAt = "validate"
       /\ reqs[i].rollbacks = 1
       /\ Len(reqs[i].items) = 2
       /\ reqs[i].items[1].productId \in ProductIds
       /\ reqs[i].items[2].productId = MissingProductId

Malformed(r) ==
  \/ InvalidRequest(r)
  \/ \E j \in 1..Len(r.items) :
       r.items[j].productId = Undefined \/ r.items[j].quantity = Undefined

\* C8: in both modes a checkout with a malformed body or a missing required
\* field is answered 400 and has issued no INSERT.
C8_MalformedIs400 ==
  \A i \in Checkouts :
    (Done(i) /\ faults = 0 /\ Malformed(reqs[i]))
    => reqs[i].status = 400 /\ reqs[i].inserts = 0

\* C9: an optimized checkout that met a data-store failure after it had
\* acquired its connection is answered 500, after a ROLLBACK was issued.
C9_DataStoreFailureIs500 ==
  CheckoutOptimized =>
    \A i \in Checkouts :
      (Done(i) /\ reqs[i].failKind \in {"error", "lost"}
         /\ reqs[i].failedAt # "connect")
      => reqs[i].status = 500 /\ reqs[i].rollbacks >= 1

\* C10: a recommendations request whose data query did not fail is answered
\* 200, whatever the cache backend did.
C10_CacheFailureNotSurfaced ==
  \A i \in Reads :
    (Done(i) /\ ~(reqs[i].failedAt = "query")) => reqs[i].status = 200


\* the cache is enabled / disabled by the environment of the startup
EnabledAtStartup == ENABLE_REDIS_CACHE = "1" \/ APP_VERSION = "optimized"

HitReads == {i \in Reads : reqs[i].path = "hit"}
MissReads == {i \in Reads : reqs[i].path = "miss"}

\* the step of request i from position pc
Steps(i, pc) ==
  /\ i \in Requests
  /\ reqs[i].kind = "recs"
  /\ reqs[i].pc = pc
  /\ reqs'[i] # reqs[i]

\* what a read that has been answered has done, by the path it took
C11_ReadCounts ==
  (EnabledAtStartup /\ ~everDown) =>
    /\ cacheHits = Cardinality(HitReads)
    /\ cacheMisses = Cardinality(MissReads)
    /\ \A i \in Reads :
         Done(i) =>
           /\ reqs[i].status = 200
           /\ \/ reqs[i].path = "hit" /\ reqs[i].queries = 0
                 /\ reqs[i].cacheOps = 1
              \/ reqs[i].path = "miss" /\ reqs[i].queries = 1
                 /\ reqs[i].cacheOps = 2

\* what the steps of a read return and store
C11_ReadSteps ==
  \A i \in Requests :
    /\ (Steps(i, "get") /\ ~everDown' /\ cache[reqs[i].userId].present
          /\ now < cache[reqs[i].userId].storedAt + 300)
       => /\ reqs'[i].pc = "done"
          /\ reqs'[i].body = Parse(cache[reqs[i].userId].value)
          /\ cacheHits' = cacheHits + 1
          /\ cacheMisses' = cacheMisses
          /\ cache' = cache
    /\ (Steps(i, "get") /\ ~everDown'
          /\ ~(cache[reqs[i].userId].present
               /\ now < cache[reqs[i].userId].storedAt + 300))
       => /\ reqs'[i].pc = "query"
          /\ cacheMisses' = cacheMisses + 1
          /\ cacheHits' = cacheHits
    /\ (Steps(i, "query") /\ ~everDown' /\ reqs[i].path = "miss"
          /\ reqs'[i].failKind = "none")
       => /\ reqs'[i].pc = "setEx"
          /\ reqs'[i].body.recommendations = Recommendations(db)
    /\ (Steps(i, "setEx") /\ ~everDown')
       => /\ reqs'[i].pc = "done"
          /\ reqs'[i].body = reqs[i].body
          /\ cache'[reqs[i].userId] =
               [present |-> TRUE, value |-> Stringify(reqs[i].body),
                ttl |-> 300, storedAt |-> now]
          /\ \A u \in Users \ {reqs[i].userId} : cache'[u] = cache[u]

\* C11: with the cache enabled and the backend available, a read looks up
\* the key of its user; on a hit it counts a hit, issues no data query and
\* returns the stored value; on a miss it counts a miss, runs exactly one
\* data query, stores the result under the same key with a time to live of
\* 300 seconds and returns it.
C11_ReadProtocol == []C11_ReadCounts /\ [][C11_ReadSteps]_vars

C11_Witness ==
  /\ EnabledAtStartup /\ ~everDown
  /\ \E i \in HitReads, j \in MissReads : Done(i) /\ Done(j)

\* C12: the body returned on a hit is, field by field, the body that the
\* miss that stored the entry returned.
C12_HitEqualsPopulatingMiss ==
  \A i \in HitReads :
    Done(i) =>
      \E j \in MissReads :
        /\ j < i
        /\ Done(j)
        /\ reqs[j].status = 200
        /\ reqs[j].userId = reqs[i].userId
        /\ reqs[j].body = reqs[i].body

C12_Witness ==
  \E i \in HitReads :
    /\ Done(i)
    /\ reqs[i].body.fields = {"recommendations", "generatedAt", "cached"}
    /\ now > reqs[i].body.generatedAt

\* C13: with the cache disabled every read runs the data query, none
\* issues a cache command, nothing is stored in the cache, and cacheHits
\* and cacheMisses stay 0.
C13_DisabledNeverTouchesCache ==
  ~EnabledAtStartup =>
    /\ cacheHits = 0
    /\ cacheMisses = 0
    /\ \A u \in Users : cache[u] = NoEntry
    /\ \A i \in Requests : reqs[i].cacheOps = 0
    /\ \A i \in Reads :
         /\ reqs[i].path = "none"
         /\ reqs[i].pc \in {"query", "done"}
         /\ Done(i) => reqs[i].queries = 1 /\ reqs[i].status = 200

C13_Witness ==
  /\ ~EnabledAtStartup
  /\ Cardinality({i \in Reads : Done(i)}) >= 2
  /\ \E i \in Checkouts : Done(i) /\ reqs[i].status = 200

\* C14: for the same store and user the cached handler answers a miss with
\* the content (same fields, same values) the baseline handler answers.
C14_MissEqualsUncached ==
  [][\A i \in Requests :
       (Steps(i, "query") /\ reqs[i].handler = "cached"
          /\ reqs'[i].failKind = "none")
       => reqs'[i].body = BaselineResponse(db, now)]_vars

\* C15: a read returns a stored value only if it was stored less than 300
\* seconds before and has not been deleted since; a read that finds an
\* entry of 300 seconds or more is a miss.
C15_NeverReturnedPastExpiry ==
  [][\A i \in Requests :
       Steps(i, "get") =>
         LET e == cache[reqs[i].userId]
         IN /\ reqs'[i].path = "hit" => e.present /\ now < e.storedAt + 300
            /\ (e.present /\ now >= e.storedAt + 300)
               => reqs'[i].path = "miss" \/ reqs'[i].failKind # "none"]_vars

C15_Witness ==
  \E i \in MissReads, j \in HitReads :
    /\ reqs[i].expired /\ Done(i)
    /\ Done(j) /\ now > reqs[j].body.generatedAt


\* an override that is set decides the capability
Decides(override, enabled) ==
  override \in {"0", "1"} => (enabled <=> override = "1")

\* C16: for every overall mode and every value of a per-capability
\* override, an override that is set decides the capability: 0 disables it
\* under APP_VERSION=optimized, 1 enables it under baseline.
C16_OverrideDecides ==
  /\ Decides(ENABLE_REDIS_CACHE, CacheEnabled)
  /\ Decides(ENABLE_BATCH_DASHBOARD, BatchDashboard)
  /\ Decides(ENABLE_OPT_SEARCH, OptSearch)

\* C17: no process has the naive checkout handler and the cache-enabled
\* recommendations handler both serving requests.
C17_NaiveCheckoutMeansNoCache ==
  \A i \in Checkouts, j \in Reads :
    reqs[i].handler = "baseline" => reqs[j].handler = "uncached"

OptimizedSteps ==
  {"connect", "begin", "select", "insertOrder", "insertItems", "commit",
   "del", "rollback", "done"}

BaselineSteps == {"price", "insertOrder", "reprice", "insertItem", "done"}

Durations == {requests[i].duration : i \in 1..Len(requests)}
Below(v) == Cardinality({i \in 1..Len(requests) : requests[i].duration < v})
UpTo(v) == Cardinality({i \in 1..Len(requests) : requests[i].duration <= v})

\* 0-based index ceil(0.95 * n) - 1, clamped to [0, n - 1]
Rank95(n) ==
  LET c == ((95 * n + 99) \div 100) - 1
  IN IF c < 0 THEN 0 ELSE IF c > n - 1 THEN n - 1 ELSE c

\* the element at 0-based index k of the durations in ascending order
KthSmallest(k) == CHOOSE v \in Durations : Below(v) <= k /\ k < UpTo(v)

\* C19: for N >= 1 recorded durations, p95Latency of calculateStats is the
\* element at 0-based index ceil(0.95 * N) - 1, clamped to [0, N - 1], of
\* the durations in ascending order.
C19_P95IsNearestRank ==
  (stats.valid /\ requests # <<>>)
  => stats.value.p95Latency = 100 * KthSmallest(Rank95(Len(requests)))

C19_Witness ==
  /\ stats.valid
  /\ Len(requests) = 20
  /\ \E i \in 1..19 : requests[i].duration > requests[i + 1].duration
  /\ \E v \in Durations : 100 * v > stats.value.p95Latency
  /\ \E v \in Durations : 100 * v < stats.value.p95Latency

\* h hundredths is num / den rounded to two decimals, half up
IsRounded(h, num, den) ==
  2 * den * h <= 200 * num + den /\ 200 * num + den < 2 * den * (h + 1)

\* C20 as stated: cacheHitRatio is hits / (hits + misses) * 100 rounded to
\* two decimals when hits + misses > 0, and 0 otherwise, whatever the
\* number of request samples.
C20_HitRatioWhateverTheSamples ==
  stats.valid =>
    IF cacheHits + cacheMisses > 0
    THEN IsRounded(stats.value.cacheHitRatio, 100 * cacheHits,
                   cacheHits + cacheMisses)
    ELSE stats.value.cacheHitRatio = 0

\* C20: once a request sample is recorded, cacheHitRatio is
\* hits / (hits + misses) * 100 rounded to two decimals when
\* hits + misses > 0 (30.00 after 3 hits and 7 misses) and 0 when no cache
\* operation occurred; while no request sample is recorded it is 0.
C20_HitRatioOnceSampled ==
  stats.valid =>
    /\ requests = <<>> => stats.value.cacheHitRatio = 0
    /\ (requests # <<>> /\ cacheHits + cacheMisses > 0)
       => IsRounded(stats.value.cacheHitRatio, 100 * cacheHits,
                    cacheHits + cacheMisses)
    /\ (requests # <<>> /\ cacheHits + cacheMisses = 0)
       => stats.value.cacheHitRatio = 0
    /\ (requests # <<>> /\ cacheHits = 3 /\ cacheMisses = 7)
       => stats.value.cacheHitRatio = 3000

C20_Witness ==
  /\ stats.valid
  /\ requests # <<>>
  /\ cacheHits = 3 /\ cacheMisses = 7
  /\ stats.value.cacheHitRatio = 3000


\* ------------------------------------------------------- statistics, C21..
StatNames ==
  {"requestCount", "errorCount", "avgLatency", "p95Latency", "throughput",
   "avgDbTime", "cacheHitRatio"}

\* C21: calculateStats called when no request sample has been recorded
\* returns its seven fields, each 0, whatever data queries and cache
\* operations have been recorded (it returns: no error is raised).
C21_NoSampleAllZero ==
  stats.valid /\ requests = <<>> =>
    /\ DOMAIN stats.value = StatNames
    /\ \A f \in StatNames : stats.value[f] = 0

C21_Witness ==
  /\ stats.valid
  /\ requests = <<>>
  /\ cacheHits > 0
  /\ cacheMisses > 0
  /\ dbQueries # <<>>


\* the time between the first and the last request sample, in milliseconds
Elapsed == requests[Len(requests)].timestamp - requests[1].timestamp

\* C22 as stated: for n >= 2 request samples whose first and last
\* timestamps differ, throughput is (n - 1) / (elapsed seconds between the
\* first and the last sample), rounded to two decimals.
C22_ThroughputCountsIntervals ==
  (stats.valid /\ Len(requests) >= 2 /\ Elapsed # 0)
  => IsRounded(stats.value.throughput, (Len(requests) - 1) * 1000, Elapsed)

\* C23: throughput is 0 (a number, no error) when exactly one request
\* sample has been recorded, and when two or more have been recorded whose
\* first and last timestamps are equal.
C23_ThroughputZero ==
  (stats.valid /\ Len(requests) >= 1 /\ (Len(requests) = 1 \/ Elapsed = 0))
  => stats.value.throughput = 0

C23_Witness ==
  /\ stats.valid
  /\ Len(requests) >= 2
  /\ Elapsed = 0

\* h hundredths is a nearest hundredth of num / den (a tie either way)
IsNearest(h, num, den) ==
  /\ 2 * (den * h - 100 * num) <= den
  /\ 2 * (100 * num - den * h) <= den

\* C24: avgLatency is the arithmetic mean of the recorded durations rounded
\* to two decimals; 50 requests with the durations 1, 2, .., 50 ms give
\* avgLatency 25.50 and p95Latency 48.
C24_AvgIsRoundedMean ==
  (stats.valid /\ requests # <<>>) =>
    /\ IsNearest(stats.value.avgLatency,
                 Sum([i \in 1..Len(requests) |-> requests[i].duration]),
                 Len(requests))
    /\ (Len(requests) = 50 /\ Durations = 1..50) =>
         /\ stats.value.avgLatency = 2550
         /\ stats.value.p95Latency = 4800

C24_Witness ==
  /\ stats.valid
  /\ Len(requests) = 50
  /\ Durations = 1..50

\* C26: calculateStats is a pure read: the call leaves the request series,
\* the query series and the two counters as they were, and a second call
\* with no recording in between returns the snapshot of the first.
C26_PureRead ==
  /\ [](stats.valid => stats.value = calculateStats)
  /\ [][(~stats.valid /\ stats'.valid) =>
          /\ requests' = requests
          /\ dbQueries' = dbQueries
          /\ cacheHits' = cacheHits
          /\ cacheMisses' = cacheMisses]_vars

C26_Witness ==
  /\ stats.valid
  /\ \E i \in 1..(Len(requests) - 1) :
       requests[i].duration > requests[i + 1].duration
  /\ dbQueries # <<>>
  /\ cacheHits > 0
  /\ cacheMisses > 0


IsPrefix(s, t) ==
  Len(s) <= Len(t) /\ \A i \in 1..Len(s) : s[i] = t[i]

\* C27: whatever is called (recordRequest, recordDbQuery, recordCacheHit,
\* recordCacheMiss, calculateStats, exportToCSV), the request series and
\* the query series before the call are prefixes of the series after it,
\* and cacheHits and cacheMisses do not decrease.
C27_AppendOnly ==
  [][/\ IsPrefix(requests, requests')
     /\ IsPrefix(dbQueries, dbQueries')
     /\ cacheHits' >= cacheHits
     /\ cacheMisses' >= cacheMisses]_vars

C27_Witness ==
  /\ stats.valid
  /\ \E f \in files : Len(f.rows) >= 1 /\ Len(f.rows) < Len(requests)
  /\ dbQueries # <<>>
  /\ cacheHits > 0
  /\ cacheMisses > 0


\* ------------------------------------------- the instrumented server, C25..
\* the requests of GET /metrics, each answered with a snapshot
Snapshots == {i \in Requests : reqs[i].kind = "metrics"}

Finished == {i \in Requests : reqs[i].finished}

\* of the first k request samples: the durations, the number of errors, and
\* the element at 0-based index r of the durations in ascending order
PrefixDurations(k) == [i \in 1..k |-> requests[i].duration]

PrefixErrors(k) == Cardinality({i \in 1..k : requests[i].statusCode >= 400})

PrefixKth(k, r) ==
  CHOOSE v \in {requests[i].duration : i \in 1..k} :
    /\ Cardinality({i \in 1..k : requests[i].duration < v}) <= r
    /\ r < Cardinality({i \in 1..k : requests[i].duration <= v})

\* C25: errorCount of a snapshot is the number of its request samples with
\* statusCode >= 400, between 0 and requestCount; every request whose
\* response has finished with 400, 404 or 500 has exactly one sample with
\* that status in the series.
C25_ErrorsCountedOnce ==
  /\ \A i \in Snapshots :
       LET m == reqs[i].body.metrics
       IN /\ m.requests <= Len(requests)
          /\ m.errors = PrefixErrors(m.requests)
          /\ 0 <= m.errors /\ m.errors <= m.requests
  /\ \A c \in {400, 404, 500} :
       Cardinality({k \in 1..Len(requests) : requests[k].statusCode = c})
         = Cardinality({j \in Finished : reqs[j].status = c})

\* C28: whatever the interleaving of the recommendation requests, each
\* request whose cache lookup has completed has incremented one of the two
\* counters once (cacheHits counts the lookups that found a value,
\* cacheMisses those that found none), and the request series has one
\* sample per finished response.
C28_NoLostUpdate ==
  /\ cacheHits = Cardinality({i \in Requests : reqs[i].kind = "recs"
                                                /\ reqs[i].path = "hit"})
  /\ cacheMisses = Cardinality({i \in Requests : reqs[i].kind = "recs"
                                                  /\ reqs[i].path = "miss"})
  /\ Len(requests) = Cardinality(Finished)

C28_Witness ==
  /\ \E i, j \in Requests :
       /\ i < j
       /\ reqs[i].kind = "recs" /\ reqs[i].pc = "query"
       /\ reqs[j].kind = "recs" /\ reqs[j].pc = "query"
  /\ \E i, j \in Finished : i < j
  /\ cacheMisses >= 2

\* C29: the requests, errors, avg_ms and p95_ms of every snapshot, taken
\* while other requests are being served and recorded, are those of one
\* prefix of the request series: of its first `requests` samples.
C29_SnapshotOfOnePrefix ==
  \A i \in Snapshots :
    LET m == reqs[i].body.metrics
        k == m.requests
    IN /\ k \in 0..Len(requests)
       /\ m.errors = PrefixErrors(k)
       /\ IF k = 0 THEN m.avg_ms = 0 /\ m.p95_ms = 0
          ELSE /\ IsNearest(m.avg_ms, Sum(PrefixDurations(k)), k)
               /\ m.p95_ms = 100 * PrefixKth(k, Rank95(k))

C29_Witness ==
  \E i \in Snapshots :
    /\ reqs[i].body.metrics.requests >= 2
    /\ reqs[i].body.metrics.requests < Len(requests)
    /\ reqs[i].body.metrics.errors >= 1
    /\ reqs[i].body.metrics.avg_ms > 0
    /\ reqs[i].body.metrics.avg_ms < reqs[i].body.metrics.p95_ms
    /\ \E j \in 1..(i - 1) : ~reqs[j].finished


\* ------------------------------------------------ pending statements, C30
\* C30 as stated: every optimized checkout that has acquired a connection
\* eventually ends with a response to the caller and with the connection
\* released, even when a statement never returns.
C30_CheckoutEndsAndReleases ==
  \A i \in 1..MaxCheckouts :
    (i \in Requests /\ reqs[i].conn = "ok")
      ~> (/\ i \in Requests
          /\ reqs[i].pc = "done"
          /\ reqs[i].status \notin {Pending, NoResponse}
          /\ reqs[i].conn = "released")


\* ------------------------------------------------- the exhausted pool, C31
\* C31 as stated: an optimized checkout whose wait for a pooled connection
\* timed out is answered with an error response, and the process keeps
\* running (it serves the later requests).
C31_AcquisitionTimeoutNotFatal ==
  \A i \in Requests :
    (reqs[i].failedAt = "connect" /\ reqs[i].failKind = "timeout")
    => (reqs[i].status >= 400 /\ proc.state = "running")


\* ---------------------------------------------------- the query series, C32
\* C32: the fingerprint of every query sample is the first 100 characters
\* of the text that was passed to recordDbQuery: it has at most 100
\* characters, and a text of at most 100 characters is stored unchanged.
C32_FingerprintIsFirstHundred ==
  \A k \in 1..Len(dbQueries) :
    LET q == dbQueries[k]
    IN /\ Len(q.query) <= 100
       /\ \A c \in 1..Len(q.query) : q.query[c] = Text(q.length)[c]
       /\ Len(q.query) = (IF q.length <= 100 THEN q.length ELSE 100)

C32_Witness ==
  /\ \E k \in 1..Len(dbQueries) : dbQueries[k].length = 101
  /\ \E k \in 1..Len(dbQueries) : dbQueries[k].length = 100


\* ------------------------------------------------------- GET /metrics, C33
\* the request that arrives in this step, if it is a GET /metrics
MetricsServed ==
  /\ Len(reqs') = Len(reqs) + 1
  /\ reqs'[Len(reqs')].kind = "metrics"

\* C33: GET /metrics answers 200 with a JSON object of exactly the fields
\* requests, errors, avg_ms, p95_ms and cache_hit_ratio, whose values are
\* requestCount, errorCount, avgLatency, p95Latency and cacheHitRatio of
\* calculateStats at the time the request is served.
C33_MetricsBodyIsSnapshot ==
  [][MetricsServed =>
       LET r == reqs'[Len(reqs')]
           s == calculateStats
       IN /\ r.status = 200
          /\ r.body.fields =
               {"requests", "errors", "avg_ms", "p95_ms", "cache_hit_ratio"}
          /\ r.body.metrics.requests = s.requestCount
          /\ r.body.metrics.errors = s.errorCount
          /\ r.body.metrics.avg_ms = s.avgLatency
          /\ r.body.metrics.p95_ms = s.p95Latency
          /\ r.body.metrics.cache_hit_ratio = s.cacheHitRatio]_vars

C33_Witness ==
  \E i \in Snapshots :
    /\ reqs[i].body.metrics.requests >= 2
    /\ reqs[i].body.metrics.errors >= 1
    /\ reqs[i].body.metrics.avg_ms > 0
    /\ reqs[i].body.metrics.avg_ms < reqs[i].body.metrics.p95_ms
    /\ reqs[i].body.metrics.cache_hit_ratio > 0


SignalStep == proc.state = "running" /\ proc'.state = "exited"
                /\ proc'.cause \in Signals

ExportStep ==
  /\ Len(reqs') = Len(reqs) + 1
  /\ reqs'[Len(reqs')].kind = "export"

\* C34: a step in which SIGINT or SIGTERM ends the process has written the
\* export of the metrics held at the signal, once, and the files change in
\* no step other than such a step or the serving of POST /metrics/export.
C34_ExportOnceBeforeExit ==
  [][/\ SignalStep =>
          /\ proc'.flushed
          /\ files' = {f \in files : f.name # ExportName} \cup {ExportFile}
     /\ files' # files => SignalStep \/ ExportStep]_vars

\* C39: the request series has one sample per request whose response has
\* finished, whatever its route, and the requests value of a GET /metrics
\* is the number of responses finished before it is served.
C39_OneSamplePerFinishedResponse ==
  [][/\ Len(requests') = Cardinality({i \in 1..Len(reqs') : reqs'[i].finished})
     /\ MetricsServed =>
          reqs'[Len(reqs')].body.metrics.requests = Cardinality(Finished)]_vars


\* the awaits of the optimized checkout in the order of its text
OptOrder ==
  <<"connect", "begin", "select", "insertOrder", "insertItems", "commit",
    "del">>

Position(pc) == CHOOSE k \in 1..Len(OptOrder) : OptOrder[k] = pc

\* C35: a request of the optimized checkout moves from one await to the
\* next in the order connect, BEGIN, product read with validation, order
\* insert, batch item insert, COMMIT, cache invalidation; it answers 200
\* only from the cache invalidation, or from COMMIT when the cache is not
\* available; from the product read to COMMIT it holds its connection with
\* the transaction open; and the cache invalidation is issued only when
\* the header and the items of the order are committed.
C35_TransactionBoundaryOrder ==
  [][\A i \in 1..Len(reqs) :
       LET r == reqs[i]
           q == reqs'[i]
       IN r.handler = "optimized" =>
            /\ q.pc # r.pc /\ q.pc \notin {"rollback", "done"} =>
                 Position(q.pc) = Position(r.pc) + 1
            /\ q.pc = "done" /\ r.pc # "done" /\ q.status = 200 =>
                 /\ r.pc = "del" \/ (r.pc = "commit" /\ ~isRedisAvailable)
                 /\ HeaderIn(db', r.orderId)
            /\ r.pc \in {"select", "insertOrder", "insertItems", "commit"} =>
                 r.conn = "ok" /\ r.tx.open
            /\ q.cacheOps # r.cacheOps =>
                 /\ r.pc = "del"
                 /\ HeaderIn(db, r.orderId)
                 /\ Cardinality(RowsOf(db, r.orderId)) = Len(r.items)
                 /\ ~r.tx.open]_vars

C35_Witness ==
  \E i, j \in Requests :
    /\ i # j
    /\ reqs[i].handler = "optimized" /\ reqs[i].status = 200
    /\ reqs[i].cacheOps = 1 /\ Len(reqs[i].items) = 2
    /\ reqs[j].handler = "optimized" /\ reqs[j].status = 200
    /\ reqs[j].cacheOps = 0


\* the baseline checkouts that ended with a failure at item k of the
\* insert loop (its price read or its INSERT)
FailedAtItem ==
  {i \in Requests : /\ reqs[i].handler = "baseline"
                    /\ reqs[i].pc = "done"
                    /\ reqs[i].failedAt \in {"reprice", "insertItem"}}

\* a failed insert loop has answered 500 and left the header and one row
\* for each of the first k-1 items, and no more
PartialOrderPersisted ==
  \A i \in FailedAtItem :
    LET r == reqs[i]
        rows == RowsOf(db, r.orderId)
    IN /\ r.status = 500
       /\ HeaderIn(db, r.orderId)
       /\ Cardinality(rows) = r.k - 1
       /\ \A j \in 1..(r.k - 1) :
            \E oi \in rows :
              /\ oi.product_id = r.items[j].productId
              /\ oi.quantity = ToInteger(r.items[j].quantity)

\* C36: a baseline checkout that failed at the k-th item of its insert
\* loop has answered 500 and has left its header and one row for each of
\* its first k-1 items, and no more, in the data store; no step removes a
\* row of the data store.
C36_PartialOrderPersists ==
  [][/\ PartialOrderPersisted'
     /\ db.orders \subseteq db'.orders
     /\ db.order_items \subseteq db'.order_items]_vars

C36_Witness ==
  \E i \in FailedAtItem :
    /\ reqs[i].failedAt = "insertItem"
    /\ reqs[i].k = 3
    /\ Len(reqs[i].items) = 4
    /\ Cardinality(RowsOf(db, reqs[i].orderId)) = 2


\* the checkouts that answered 200
Succeeded == {i \in Requests : reqs[i].kind = "checkout"
                                 /\ reqs[i].status = 200}

\* C37: a checkout of n items that answered 200 has issued, in the
\* optimized handler, one product read and two INSERTs (the header and one
\* statement for all items); in the baseline handler 2n product reads and
\* n + 1 INSERTs (the header and one statement per item).
C37_RoundTripCounts ==
  \A i \in Succeeded :
    LET r == reqs[i]
        n == Len(r.items)
    IN IF r.handler = "optimized"
       THEN r.reads = 1 /\ r.inserts = 1 + 1
       ELSE r.reads = 2 * n /\ r.inserts = 1 + n

C37_Witness ==
  /\ \E i \in Succeeded :
       /\ reqs[i].handler = "baseline" /\ Len(reqs[i].items) = MaxLongItems
       /\ reqs[i].reads = 2 * MaxLongItems


\* the connections that are checked out of the pool
CheckedOut == {i \in Requests : reqs[i].conn \in {"ok", "lost"}}

\* C38: an optimized checkout that has left its handler after it acquired
\* a connection has released it once, whatever the path (answer 200,
\* product not found, a statement, COMMIT, the cache invalidation or
\* ROLLBACK failed); a request still in its handler has not released it,
\* a request that acquired none releases none; so when every request has
\* ended no connection is checked out.
C38_ReleasedOnce ==
  /\ \A i \in Requests :
       LET r == reqs[i]
       IN /\ r.pc = "done" /\ r.failedAt # "connect"
               /\ r.handler = "optimized" /\ r.status # 400 =>
                 r.releases = 1 /\ r.conn = "released"
          /\ r.pc # "done" => r.releases = 0
          /\ r.status = 400 \/ r.failedAt = "connect" =>
               r.releases = 0 /\ r.conn = "none"
  /\ (\A i \in Requests : reqs[i].pc = "done") => CheckedOut = {}

C38_Witness ==
  \E i, j \in Requests :
    /\ reqs[i].pc = "done" /\ reqs[i].failKind = "notfound"
    /\ reqs[i].releases = 1
    /\ reqs[j].pc = "done" /\ reqs[j].failedAt = "del"
    /\ reqs[j].rollbacks = 1 /\ reqs[j].releases = 1
    /\ CheckedOut = {}


\* the properties that both handlers give an object of each array
ItemValue(x) == <<x.id, x.product_id, x.quantity, x.price>>
PreferenceValue(x) == <<x.category_id, x.preference_score>>
ActivityValue(x) == <<x.endpoint, x.duration_ms, x.created_at>>

Count(S, value(_), v) == Cardinality({x \in S : value(x) = v})

\* two dashboards show the same user, the same orders, each with the same
\* items once, the same preferences and the same recent activity
SameDashboard(a, b) ==
  /\ a.user.id = b.user.id
  /\ {o.id : o \in a.orders} = {o.id : o \in b.orders}
  /\ \A o \in a.orders, q \in b.orders :
       o.id = q.id =>
         /\ o.total_amount = q.total_amount /\ o.status = q.status
         /\ {ItemValue(x) : x \in o.items} = {ItemValue(x) : x \in q.items}
         /\ \A x \in o.items \cup q.items : x.copies = 1
  /\ \A x \in a.preferences \cup b.preferences :
       Count(a.preferences, PreferenceValue, PreferenceValue(x))
         = Count(b.preferences, PreferenceValue, PreferenceValue(x))
  /\ \A x \in a.recentActivity \cup b.recentActivity :
       Count(a.recentActivity, ActivityValue, ActivityValue(x))
         = Count(b.recentActivity, ActivityValue, ActivityValue(x))

Dashboards == {i \in Requests : reqs[i].kind = "dashboard"
                                  /\ reqs[i].pc = "done"
                                  /\ reqs[i].failKind = "none"}

\* C40: a dashboard request that either handler has answered without a
\* failed query is answered 404 exactly when the user does not exist and
\* otherwise 200 with the dashboard that the baseline handler builds from
\* the data store: the same user, orders, items (each once), preferences
\* and recent activity.
C40_DashboardsEquivalent ==
  \A i \in Dashboards :
    LET r == reqs[i]
    IN /\ r.status = 404 <=> r.userId \notin db.users
       /\ r.status # 404 =>
            /\ r.status = 200
            /\ SameDashboard(r.body.dashboard,
                             BaselineDashboard(db, r.userId))

====
